---------------------------- MODULE Spec2Model ----------------------------
(***************************************************************************)
(* A model of two backend utilities of the nGraph compiler:                *)
(*                                                                         *)
(*   - runtime/gpu/gpu_util.cpp: the CUDA device-memory helpers and the    *)
(*     magic-number routine for division by an invariant divisor;          *)
(*   - runtime/cpu/mkldnn_emitter.cpp: the MKLDNN primitive emitter, its   *)
(*     primitive list, dependency table and workspace list.                *)
(*                                                                         *)
(* uint64_t values are sequences of four 16-bit limbs, least significant   *)
(* limb first, so that every operation wraps modulo 2^64 as in the code.   *)
(***************************************************************************)
EXTENDS Integers, Sequences, FiniteSets, TLC

VARIABLES
    \* ---- runtime::gpu::get_magic_u64 ----
    divisor,        \* the uint64_t argument of get_magic_u64
    magic_ret,      \* what the call produced: nothing yet, a pair, or a throw
    dividend,       \* a value n the returned pair is applied to
    \* ---- runtime::gpu device-memory helpers ----
    dev_mem,        \* device pointer -> bytes of the buffer allocated there
    host_mem,       \* host pointer -> bytes of the host buffer there
    gpu_op,         \* the last helper call as its caller sees it
    cuda_log,       \* the CUDA runtime calls that helper call made, with results
    \* ---- runtime::cpu::MKLDNNEmitter ----
    m_mkldnn_primitives,  \* std::vector<mkldnn::primitive*>: 0 is nullptr
    m_primitive_deps,     \* std::unordered_map<size_t, std::vector<size_t>>
    m_workspaces,         \* std::vector<std::unique_ptr<MKLDNNWorkspace>>
    m_workspace_bufs,     \* std::vector<char*>
    heap,           \* every mkldnn::primitive made with new, by object id
    alive,          \* the emitter has not been destroyed
    teardown,       \* what the destructor did, in order
    call,           \* the last member call as its caller sees it
    ncalls,         \* construct, reserve and rebuild calls made so far
    desc_call       \* the last build_memory_descriptor call and its outcome

magic_vars == <<divisor, magic_ret, dividend>>

gpu_vars == <<dev_mem, host_mem, gpu_op, cuda_log>>

registry_vars ==
    <<m_mkldnn_primitives, m_primitive_deps, m_workspaces, m_workspace_bufs>>

emitter_vars ==
    <<registry_vars, heap, alive, teardown, call, ncalls, desc_call>>

vars == <<magic_vars, gpu_vars, emitter_vars>>

(***************************************************************************)
(* 64-bit unsigned arithmetic.                                             *)
(***************************************************************************)
\* the element of a one-element set.  A value bound as x in
\* {f(x) : x \in {e}} is worked out once, where an operator argument or a
\* LET name is worked out again wherever it is used
The(S) == CHOOSE x \in S : TRUE

U64(n) == <<n % 65536, n \div 65536, 0, 0>>

Hex64(l4, l3, l2, l1) == <<l1, l2, l3, l4>>

IsZero64(a) == a = <<0, 0, 0, 0>>

Add64(a, b) ==
    The({LET s1 == x[1] + y[1]
             s2 == x[2] + y[2] + (s1 \div 65536)
             s3 == x[3] + y[3] + (s2 \div 65536)
             s4 == x[4] + y[4] + (s3 \div 65536)
         IN  <<s1 % 65536, s2 % 65536, s3 % 65536, s4 % 65536>> :
         x \in {a}, y \in {b}})

Sub64(a, b) ==
    The({LET d1 == 65536 + x[1] - y[1]
             d2 == 65536 + x[2] - y[2] - (1 - (d1 \div 65536))
             d3 == 65536 + x[3] - y[3] - (1 - (d2 \div 65536))
             d4 == 65536 + x[4] - y[4] - (1 - (d3 \div 65536))
         IN  <<d1 % 65536, d2 % 65536, d3 % 65536, d4 % 65536>> :
         x \in {a}, y \in {b}})

Less64(a, b) ==
    \E x \in {a}, y \in {b} :
        \/ x[4] < y[4]
        \/ x[4] = y[4] /\ x[3] < y[3]
        \/ x[4] = y[4] /\ x[3] = y[3] /\ x[2] < y[2]
        \/ x[4] = y[4] /\ x[3] = y[3] /\ x[2] = y[2] /\ x[1] < y[1]

\* the 32-bit product of two limbs as <<low limb, high limb>>
MulLimb(x, y) ==
    LET A == (x \div 256) * y
        B == (x % 256) * y
        t == (A % 256) * 256 + B
    IN  <<t % 65536, (A \div 256) + (t \div 65536)>>

Mul64(a, b) ==
    The({LET p11 == MulLimb(x[1], y[1])
             p12 == MulLimb(x[1], y[2])
             p13 == MulLimb(x[1], y[3])
             p14 == MulLimb(x[1], y[4])
             p21 == MulLimb(x[2], y[1])
             p22 == MulLimb(x[2], y[2])
             p23 == MulLimb(x[2], y[3])
             p31 == MulLimb(x[3], y[1])
             p32 == MulLimb(x[3], y[2])
             p41 == MulLimb(x[4], y[1])
             c1 == p11[1]
             c2 == p11[2] + p12[1] + p21[1] + (c1 \div 65536)
             c3 == p12[2] + p21[2] + p13[1] + p22[1] + p31[1]
                     + (c2 \div 65536)
             c4 == p13[2] + p22[2] + p31[2] + p14[1] + p23[1] + p32[1]
                     + p41[1] + (c3 \div 65536)
         IN  <<c1 % 65536, c2 % 65536, c3 % 65536, c4 % 65536>> :
         x \in {a}, y \in {b}})

Bit64(a, i) == (a[(i \div 16) + 1] \div (2 ^ (i % 16))) % 2

\* a << 1 in 65 bits: <<the 64-bit value, the bit shifted out>>
Shl1(a) ==
    The({LET s1 == 2 * x[1]
             s2 == 2 * x[2] + (s1 \div 65536)
             s3 == 2 * x[3] + (s2 \div 65536)
             s4 == 2 * x[4] + (s3 \div 65536)
         IN  <<(<<s1 % 65536, s2 % 65536, s3 % 65536, s4 % 65536>>),
               s4 \div 65536>> :
         x \in {a}})

SetBit64(a, i) == [a EXCEPT ![(i \div 16) + 1] = @ + 2 ^ (i % 16)]

\* one step of binary long division: the remainder r takes bit i of a, and
\* d is taken from it when it fits, which sets bit i of the quotient q
DivBit64(a, d, i, q, r) ==
    The({The({IF sh[2] = 1 \/ ~Less64(r1, d)
              THEN [q |-> SetBit64(q, i), r |-> Sub64(r1, d)]
              ELSE [q |-> q, r |-> r1] :
              r1 \in {[sh[1] EXCEPT ![1] = @ + Bit64(a, i)]}}) :
         sh \in {Shl1(r)}})

\* binary long division of a by d (d # 0), bits hi down to hi - n + 1 of a:
\* s and the result are [q |-> quotient so far, r |-> remainder so far]
RECURSIVE DivStep64(_, _, _, _, _)
DivStep64(a, d, hi, n, s) ==
    IF n = 1 THEN DivBit64(a, d, hi, s.q, s.r)
    ELSE The({The({DivStep64(a, d, hi - h, n - h, t) :
                   t \in {DivStep64(a, d, hi, h, s)}}) :
              h \in {n \div 2}})

\* the highest bit position that can be set in a
TopBit64(a) ==
    IF a[4] # 0 THEN 63 ELSE IF a[3] # 0 THEN 47 ELSE IF a[2] # 0 THEN 31 ELSE 15

\* [q |-> a / d, r |-> a % d]
DivMod64(a, d) ==
    The({DivStep64(x, y, top, top + 1,
                   [q |-> <<0, 0, 0, 0>>, r |-> <<0, 0, 0, 0>>]) :
         x \in {a}, y \in {d}, top \in {TopBit64(a)}})

Div64(a, d) == DivMod64(a, d).q

Mod64(a, d) == DivMod64(a, d).r

\* a >> k for 0 <= k; a shift by 64 or more bits leaves nothing
Shr64(a, k) ==
    IF k >= 64 THEN <<0, 0, 0, 0>>
    ELSE The({LET limb(j) == IF j > 4 THEN 0 ELSE x[j]
                  out(j) == (limb(j + w) \div (2 ^ sb))
                              + (limb(j + w + 1) % (2 ^ sb)) * (2 ^ (16 - sb))
              IN  <<out(1), out(2), out(3), out(4)>> :
              x \in {a}, w \in {k \div 16}, sb \in {k % 16}})

RECURSIVE Or16(_, _, _)
Or16(x, y, k) ==
    IF k = 0 THEN 0
    ELSE (IF x % 2 = 1 \/ y % 2 = 1 THEN 1 ELSE 0)
           + 2 * Or16(x \div 2, y \div 2, k - 1)

Or64(a, b) ==
    The({<<Or16(x[1], y[1], 16), Or16(x[2], y[2], 16),
           Or16(x[3], y[3], 16), Or16(x[4], y[4], 16)>> :
         x \in {a}, y \in {b}})

\* static_cast<uint32_t>
Low32(a) == The({<<x[1], x[2], 0, 0>> : x \in {a}})


(***************************************************************************)
(* gpu_util.cpp, the anonymous namespace: the magic-number routine.        *)
(***************************************************************************)
\* do { if (exp & 1) result *= base; exp >>= 1; if (!exp) break;
\*      base *= base; } while (true);
RECURSIVE powU64_loop(_, _, _)
powU64_loop(result, base, exp) ==
    The({IF e1 = 0 THEN r1
         ELSE The({powU64_loop(r1, b2, e1) : b2 \in {Mul64(base, base)}}) :
         r1 \in {IF exp % 2 = 1 THEN Mul64(result, base) ELSE result},
         e1 \in {exp \div 2}})

\* uint64_t _powU64(uint64_t base, uint64_t exp); exp is a small count here
powU64(base, exp) == powU64_loop(U64(1), base, exp)

multiply_de_Bruijn_bit_position ==
    <<0, 9, 1, 10, 13, 21, 2, 29, 11, 14, 16, 18, 22, 25, 3, 30,
      8, 12, 20, 28, 15, 17, 24, 7, 19, 27, 23, 6, 26, 5, 4, 31>>

\* uint32_t _msbDeBruijnU32(uint32_t v)
msbDeBruijnU32(v) ==
    The({The({The({The({The({
        LET prod == Low32(Mul64(v16, Hex64(0, 0, 1988, 44253)))  \* 0x07C4ACDD
            idx == Shr64(prod, 27)[1]
        IN  multiply_de_Bruijn_bit_position[idx + 1] :
        v16 \in {Or64(v8, Shr64(v8, 16))}}) :
        v8 \in {Or64(v4, Shr64(v4, 8))}}) :
        v4 \in {Or64(v2, Shr64(v2, 4))}}) :
        v2 \in {Or64(v1, Shr64(v1, 2))}}) :
        v1 \in {Or64(v, Shr64(v, 1))}})

\* int _msbU64(uint64_t val)
msbU64(val) ==
    IF Less64(Hex64(0, 0, 65535, 65535), val)
    THEN 32 + msbDeBruijnU32(Low32(Shr64(val, 32)))
    ELSE msbDeBruijnU32(Low32(val))

\* the test of the loop body for one p: nc * (d - 1 - (2^p - 1) % d) < 2^p
magicU32_found(nc, d, p) ==
    \E pow2 \in {powU64(U64(2), p)} :
        Less64(Mul64(nc, Sub64(Sub64(d, U64(1)),
                               Mod64(Sub64(pow2, U64(1)), d))),
               pow2)

\* uint64_t m = (pow2 + d - 1 - (pow2 - 1) % d) / d
magicU32_m(d, p) ==
    The({Div64(Sub64(Sub64(Add64(pow2, d), U64(1)),
                     Mod64(Sub64(pow2, U64(1)), d)), d) :
         pow2 \in {powU64(U64(2), p)}})

\* for (uint64_t p = 0; p < 2 * nbits + 1; p++): the first p that passes the
\* test returns, and the loop running out throws std::runtime_error
magicU32_loop(nc, d, nbits) ==
    The({IF hits = {}
         THEN [status |-> "runtime_error"]
         ELSE The({[status |-> "ok", magic |-> magicU32_m(d, p),
                    shift |-> U64(p)] :
                   p \in {CHOOSE h \in hits : \A g \in hits : h <= g}}) :
         hits \in {{p \in 0..(2 * nbits) : magicU32_found(nc, d, p)}}})

\* std::pair<uint64_t, uint64_t> _magicU32(uint64_t nmax, uint64_t d)
magicU32(nmax, d) ==
    The({magicU32_loop(nc, d, nbits) :
         nc \in {Sub64(Mul64(Div64(Add64(nmax, U64(1)), d), d), U64(1))},
         nbits \in {msbU64(nmax) + 1}})

\* _magicU64 with 0xffffffff for every divisor, which line 158 avoids
magic_nmax_wide(d) == Hex64(0, 0, 65535, 65535)

\* _magicU64 without the case of line 158: 0x7fffffff for every divisor
magic_nmax_same(d) == Hex64(0, 0, 32767, 65535)

\* the nmax _magicU64 chooses for a divisor
magic_nmax(d) ==
    IF d = U64(3) THEN Hex64(0, 0, 65535, 65535) ELSE Hex64(0, 0, 32767, 65535)

\* std::pair<uint64_t, uint64_t> _magicU64(uint64_t d)
magicU64(d) ==
    The({IF r.status # "ok" THEN r
         ELSE IF r.magic # U64(1)
              THEN [r EXCEPT !.shift = Sub64(r.shift, U64(32))]
              ELSE r :
         r \in {magicU32(magic_nmax(d), d)}})

\* std::pair<uint64_t, uint64_t> runtime::gpu::get_magic_u64(uint64_t divisor)
get_magic_u64(d) == magicU64(d)

(***************************************************************************)
(* Divisors and dividends the routine is exercised on.                     *)
(***************************************************************************)
MaxSmallDivisor == 10

Pow2_64(k) == powU64(U64(2), k)

\* small divisors, powers of two, neighbours of powers of two, factors of
\* 2^32 + 1 and of 2^31 + 1, and divisors above 2^31
Divisors ==
    {U64(k) : k \in 1..MaxSmallDivisor}
      \cup {Pow2_64(k) : k \in {15, 16, 30, 31}}
      \cup {Add64(Pow2_64(k), U64(1)) : k \in {16, 30, 31}}
      \cup {Sub64(Pow2_64(k), U64(1)) : k \in {16, 31, 32}}
      \cup {U64(641), U64(6700417), U64(715827883), U64(1000000007)}

\* the dividends tried for a divisor d: the ends of the range and the values
\* next to multiples of d, where a multiply-and-shift goes wrong first
Dividends(d) ==
    LET nmax == magic_nmax(d)
        top == Mul64(Div64(Add64(nmax, U64(1)), d), d)
        near == {U64(0), U64(1), Sub64(d, U64(1)), d, Add64(d, U64(1)),
                 Sub64(Add64(d, d), U64(1)), Add64(d, d),
                 Sub64(top, U64(1)), top, Sub64(nmax, U64(1)), nmax,
                 Shr64(nmax, 1), Hex64(0, 0, 1, 0)}
    IN  {n \in near : ~Less64(nmax, n)}


\* the caller asks for the pair of its divisor
Call_get_magic_u64 ==
    /\ magic_ret.status = "none"
    /\ magic_ret' = get_magic_u64(divisor)
    /\ UNCHANGED <<divisor, dividend>>
    /\ UNCHANGED <<gpu_vars, emitter_vars>>

\* the generated code is run on a value n of the supported range
ChooseDividend ==
    /\ magic_ret.status = "ok"
    /\ \E n \in Dividends(divisor) : dividend' = n
    /\ UNCHANGED <<divisor, magic_ret>>
    /\ UNCHANGED <<gpu_vars, emitter_vars>>

\* (n * m) >> (32 + s), the shift amount taken as the number it is
MulShift(n, m, s) ==
    IF s[2] # 0 \/ s[3] # 0 \/ s[4] # 0 THEN U64(0)
    ELSE Shr64(Mul64(n, m), 32 + s[1])


-----------------------------------------------------------------------------
\* The device-memory helpers of gpu_util.cpp over a device of a few bytes.
\* A pointer is a record; the CUDA runtime is modelled by what it documents:
\* cudaMalloc fails with cudaErrorMemoryAllocation when the device cannot
\* hold the request and then leaves *devPtr as it was, cudaMemcpy and
\* cudaMemset fail with cudaErrorInvalidValue on a pointer that is not a live
\* buffer of the right side or on a size beyond a buffer, cudaFree fails on a
\* pointer that is not a live allocation.

MaxDevBuffers == 2      \* device addresses the runtime can hand out
MaxBufferSize == 2      \* bytes of the largest buffer
DeviceBytes == 3        \* bytes of device memory
HostBuffers == 1        \* host buffers of MaxBufferSize bytes

Bytes == {0, 1}

NullPtr == [space |-> "null", addr |-> 0]
WildPtr == [space |-> "wild", addr |-> 0]
DevPtr(k) == [space |-> "device", addr |-> k]
HostPtr(k) == [space |-> "host", addr |-> k]

DevPtrs == {DevPtr(k) : k \in 1..MaxDevBuffers}
HostPtrs == {HostPtr(k) : k \in 1..HostBuffers}
Pointers == DevPtrs \cup HostPtrs \cup {NullPtr, WildPtr}

Contents(n) == [1..n -> Bytes]

NoBuffer == [live |-> FALSE, data |-> <<>>]

LiveDev(mem, p) == p \in DevPtrs /\ mem[p.addr].live

RECURSIVE SumSizes(_, _)
SumSizes(mem, k) ==
    IF k = 0 THEN 0 ELSE Len(mem[k].data) + SumSizes(mem, k - 1)

DeviceUsed(mem) == SumSizes(mem, MaxDevBuffers)

\* cudaMalloc(&p, size): the addresses it can return, none when it fails
cudaMalloc_results(mem, size) ==
    IF DeviceUsed(mem) + size > DeviceBytes THEN {}
    ELSE {p \in DevPtrs : ~mem[p.addr].live}

\* the bytes a pointer of one side of a copy addresses, <<>> when invalid
Readable(dmem, hmem, p, side) ==
    IF side = "device" /\ LiveDev(dmem, p) THEN dmem[p.addr].data
    ELSE IF side = "host" /\ p \in HostPtrs THEN hmem[p.addr]
    ELSE <<>>

Overwrite(old, new, n) ==
    [i \in 1..Len(old) |-> IF i <= n THEN new[i] ELSE old[i]]

\* cudaMemcpy(dst, src, size, kind) with kind = <<side of dst, side of src>>
cudaMemcpy_ok(dmem, hmem, dst, src, size, kind) ==
    /\ Len(Readable(dmem, hmem, dst, kind[1])) >= size
    /\ Len(Readable(dmem, hmem, src, kind[2])) >= size
    /\ Len(Readable(dmem, hmem, dst, kind[1])) > 0
    /\ Len(Readable(dmem, hmem, src, kind[2])) > 0

CopySizes == 1..(MaxBufferSize + 1)

\* what the caller of a helper gets: the returned pointer (NullPtr for the
\* void helpers) and the error reported, which no helper has a way to do
GpuCallOn(fn, arg, ret) ==
    [fn |-> fn, arg |-> arg, ret |-> ret, reported |-> "nothing"]
GpuCall(fn, ret) == GpuCallOn(fn, NullPtr, ret)

\* one call of the CUDA runtime: the pointer it was about and its cudaError_t
Cuda(api, ptr, err) == [api |-> api, ptr |-> ptr, err |-> err]


\* void* create_gpu_buffer(size_t buffer_size): the result of cudaMalloc is
\* dropped and the local pointer, which cudaMalloc leaves unset when it
\* fails, is returned either way
create_gpu_buffer ==
    \E size \in 1..MaxBufferSize :
        /\ IF cudaMalloc_results(dev_mem, size) # {}
           THEN \E p \in cudaMalloc_results(dev_mem, size),
                   fresh \in Contents(size) :
                    /\ dev_mem' = [dev_mem EXCEPT ![p.addr] =
                                       [live |-> TRUE, data |-> fresh]]
                    /\ cuda_log' = <<Cuda("cudaMalloc", p, "cudaSuccess")>>
                    /\ gpu_op' = GpuCall("create_gpu_buffer", p)
           ELSE \E unset \in DevPtrs \cup {NullPtr, WildPtr} :
                    /\ dev_mem' = dev_mem
                    /\ cuda_log' = <<Cuda("cudaMalloc", unset, "cudaErrorMemoryAllocation")>>
                    /\ gpu_op' = GpuCall("create_gpu_buffer", unset)
        /\ UNCHANGED host_mem
        /\ UNCHANGED <<magic_vars, emitter_vars>>

\* void free_gpu_buffer(void* buffer)
\* free_gpu_buffer without the `if (buffer)` test of line 55
free_gpu_buffer_unguarded ==
    \E buffer \in DevPtrs \cup {NullPtr, WildPtr} :
        /\ IF buffer # NullPtr /\ LiveDev(dev_mem, buffer)
           THEN /\ dev_mem' = [dev_mem EXCEPT ![buffer.addr] = NoBuffer]
                /\ cuda_log' = <<Cuda("cudaFree", buffer, "cudaSuccess")>>
           ELSE /\ dev_mem' = dev_mem
                /\ cuda_log' = <<Cuda("cudaFree", buffer,
                                      IF buffer = NullPtr THEN "cudaSuccess"
                                      ELSE "cudaErrorInvalidValue")>>
        /\ gpu_op' = GpuCallOn("free_gpu_buffer", buffer, NullPtr)
        /\ UNCHANGED host_mem
        /\ UNCHANGED <<magic_vars, emitter_vars>>

free_gpu_buffer ==
    \E buffer \in DevPtrs \cup {NullPtr, WildPtr} :
        /\ IF buffer # NullPtr
           THEN IF LiveDev(dev_mem, buffer)
                THEN /\ dev_mem' = [dev_mem EXCEPT ![buffer.addr] = NoBuffer]
                     /\ cuda_log' = <<Cuda("cudaFree", buffer, "cudaSuccess")>>
                ELSE /\ dev_mem' = dev_mem
                     /\ cuda_log' = <<Cuda("cudaFree", buffer, "cudaErrorInvalidValue")>>
           ELSE /\ dev_mem' = dev_mem
                /\ cuda_log' = <<>>
        /\ gpu_op' = GpuCallOn("free_gpu_buffer", buffer, NullPtr)
        /\ UNCHANGED host_mem
        /\ UNCHANGED <<magic_vars, emitter_vars>>

\* the body the three copy helpers share: one cudaMemcpy, result dropped
cuda_memcpy(fn, dst, src, buffer_size, kind) ==
    /\ IF cudaMemcpy_ok(dev_mem, host_mem, dst, src, buffer_size, kind)
       THEN LET from == Readable(dev_mem, host_mem, src, kind[2])
            IN  /\ IF kind[1] = "device"
                   THEN /\ dev_mem' = [dev_mem EXCEPT ![dst.addr].data =
                                           Overwrite(@, from, buffer_size)]
                        /\ host_mem' = host_mem
                   ELSE /\ host_mem' = [host_mem EXCEPT ![dst.addr] =
                                            Overwrite(@, from, buffer_size)]
                        /\ dev_mem' = dev_mem
                /\ cuda_log' = <<Cuda("cudaMemcpy", dst, "cudaSuccess")>>
       ELSE /\ dev_mem' = dev_mem
            /\ host_mem' = host_mem
            /\ cuda_log' = <<Cuda("cudaMemcpy", dst, "cudaErrorInvalidValue")>>
    /\ gpu_op' = GpuCall(fn, NullPtr)
    /\ UNCHANGED <<magic_vars, emitter_vars>>

cuda_memcpyDtD ==
    \E dst \in Pointers, src \in Pointers, buffer_size \in CopySizes :
        cuda_memcpy("cuda_memcpyDtD", dst, src, buffer_size,
                    <<"device", "device">>)

cuda_memcpyHtD ==
    \E dst \in Pointers, src \in Pointers, buffer_size \in CopySizes :
        cuda_memcpy("cuda_memcpyHtD", dst, src, buffer_size,
                    <<"device", "host">>)

cuda_memcpyDtH ==
    \E dst \in Pointers, src \in Pointers, buffer_size \in CopySizes :
        cuda_memcpy("cuda_memcpyDtH", dst, src, buffer_size,
                    <<"host", "device">>)

\* void cuda_memset(void* dst, int value, size_t buffer_size)
cuda_memset ==
    \E dst \in Pointers, value \in Bytes, buffer_size \in CopySizes :
        /\ IF LiveDev(dev_mem, dst) /\ Len(dev_mem[dst.addr].data) >= buffer_size
           THEN /\ dev_mem' = [dev_mem EXCEPT ![dst.addr].data =
                                   Overwrite(@, [i \in 1..buffer_size |-> value],
                                             buffer_size)]
                /\ cuda_log' = <<Cuda("cudaMemset", dst, "cudaSuccess")>>
           ELSE /\ dev_mem' = dev_mem
                /\ cuda_log' = <<Cuda("cudaMemset", dst, "cudaErrorInvalidValue")>>
        /\ gpu_op' = GpuCall("cuda_memset", NullPtr)
        /\ UNCHANGED host_mem
        /\ UNCHANGED <<magic_vars, emitter_vars>>

GpuNext ==
    \/ create_gpu_buffer
    \/ free_gpu_buffer
    \/ cuda_memcpyDtD
    \/ cuda_memcpyHtD
    \/ cuda_memcpyDtH
    \/ cuda_memset

-----------------------------------------------------------------------------
\* runtime::cpu::MKLDNNEmitter.  An index is a position of m_mkldnn_primitives
\* counted from 0, as in the source.  A primitive made with new is an object
\* of the heap: its id is its position in heap, 0 stands for nullptr.  The
\* vendor library is modelled by its verdict: an operation that asks it for a
\* primitive descriptor or a compute primitive takes `vendor`, 0 when the
\* library accepts every request and k when its k-th request is rejected with
\* mkldnn::error.  Memory primitives over a descriptor the caller already
\* holds are taken to be accepted.

MaxPrimitives == 10     \* slots m_mkldnn_primitives may grow to
MaxCalls == 2           \* construct, reserve and rebuild calls of one run
MaxReserve == 9         \* largest count handed to reserve_primitive_space
MaxConcatInputs == 2    \* most inputs of one concat

\* the emitter's containers as one value, for the member functions to work on
Registry ==
    [prims |-> m_mkldnn_primitives,
     deps |-> m_primitive_deps,
     wss |-> m_workspaces,
     bufs |-> m_workspace_bufs,
     heap |-> heap]

Size(R) == Len(R.prims)

\* m_mkldnn_primitives[index]
Prim(R, index) == R.prims[index + 1]

\* m_primitive_deps[index][k]
Dep(R, index, k) == R.deps[index][k + 1]

\* new T(...): the object and the memory objects it was constructed over
Object(type, desc, args) ==
    [type |-> type, desc |-> desc, args |-> args, deleted |-> 0]

New(R, obj) == [R EXCEPT !.heap = Append(@, obj)]

Newest(R) == Len(R.heap)

\* how a member function ends: with a value, or with an exception in flight
Return(R, v) == [reg |-> R, status |-> "ok", value |-> v]

Throw(R, e) == [reg |-> R, status |-> e, value |-> 0 - 1]

\* size_t insert_primitive(mkldnn::primitive*): the index is Size(R) before
insert_primitive(R, primitive) == [R EXCEPT !.prims = Append(@, primitive)]

\* new MKLDNNWorkspace(size): its buffer is a fresh address
MKLDNNWorkspace(R) == [buf |-> Len(R.wss) + 1]

\* insert_workspace without the push_back of line 66
insert_workspace_unlisted(R, workspace) ==
    [R EXCEPT !.wss = Append(@, workspace)]

\* size_t insert_workspace(std::unique_ptr<MKLDNNWorkspace>&): the index is
\* Len(R.wss) before
insert_workspace(R, workspace) ==
    [R EXCEPT !.bufs = Append(@, workspace.buf), !.wss = Append(@, workspace)]

\* m_primitive_deps[index][k] = v
set_dep(R, index, k, v) == [R EXCEPT !.deps[index][k + 1] = v]

\* m_primitive_deps[index] = {...}
set_primitive_deps(R, index, entry) ==
    [R EXCEPT !.deps = [i \in DOMAIN @ \cup {index} |->
                            IF i = index THEN entry ELSE @[i]]]

\* size_t build_memory_primitive(const mkldnn::memory::desc&)
build_memory_primitive(R, desc) ==
    LET R1 == New(R, Object("memory", desc, <<>>))
    IN  insert_primitive(R1, Newest(R1))

\* void build_memory_primitive(const mkldnn::memory::desc&, size_t index): the
\* pointer the slot held is overwritten, not deleted
build_memory_primitive_at(R, desc, index) ==
    LET R1 == New(R, Object("memory", desc, <<>>))
    IN  [R1 EXCEPT !.prims[index + 1] = Newest(R1)]

\* m_mkldnn_primitives[index] = new T(..., *m_mkldnn_primitives[a], ...)
set_primitive(R, index, type, desc, slots) ==
    LET R1 == New(R, Object(type, desc,
                            [k \in 1..Len(slots) |-> Prim(R, slots[k])]))
    IN  [R1 EXCEPT !.prims[index + 1] = Newest(R1)]

\* insert_primitive(new T(..., *m_mkldnn_primitives[a], ...))
add_primitive(R, type, desc, slots) ==
    LET R1 == New(R, Object(type, desc,
                            [k \in 1..Len(slots) |-> Prim(R, slots[k])]))
    IN  insert_primitive(R1, Newest(R1))

RECURSIVE build_memory_primitives(_, _)
build_memory_primitives(R, descs) ==
    IF descs = <<>> THEN R
    ELSE build_memory_primitives(build_memory_primitive(R, Head(descs)),
                                 Tail(descs))

\* a construct that would write m_primitive_deps[index] before it asks the
\* vendor for the primitive, so that a rejection leaves the entry behind
Construct_entry_first(R, descs, type, tag, args, entry, vendor, caught) ==
    LET base == Size(R)
        R1 == build_memory_primitives(R, descs)
        slot(k) == base + k - 1
        index == Size(R1)
        R2 == set_primitive_deps(R1, index,
                  [k \in 1..Len(entry) |-> slot(entry[k])])
    IN  IF vendor # 0
        THEN Throw(R2, IF caught THEN "ngraph_error" ELSE "mkldnn::error")
        ELSE Return(set_primitive_deps(
                        add_primitive(R1, type, tag,
                            [k \in 1..Len(args) |-> slot(args[k])]),
                        index, [k \in 1..Len(entry) |-> slot(entry[k])]),
                    index)

\* the shape most construct overloads share: one build_memory_primitive per
\* descriptor, then insert_primitive(new T(...)) over some of those memories
\* and m_primitive_deps[index] = {...}.  args and entry name the memories by
\* their position in descs; caught tells whether the new is inside a
\* try/catch that rethrows mkldnn::error as ngraph_error
Construct(R, descs, type, tag, args, entry, vendor, caught) ==
    LET base == Size(R)
        R1 == build_memory_primitives(R, descs)
        slot(k) == base + k - 1
    IN  IF vendor # 0
        THEN Throw(R1, IF caught THEN "ngraph_error" ELSE "mkldnn::error")
        ELSE LET R2 == add_primitive(R1, type, tag,
                                     [k \in 1..Len(args) |-> slot(args[k])])
                 index == Size(R1)
             IN  Return(set_primitive_deps(R2, index,
                            [k \in 1..Len(entry) |-> slot(entry[k])]), index)

RECURSIVE rebuild_memory_primitives(_, _, _)
rebuild_memory_primitives(R, index, order) ==
    IF order = <<>> THEN R
    ELSE rebuild_memory_primitives(
             build_memory_primitive_at(R, Head(order)[1],
                                       Dep(R, index, Head(order)[2])),
             index, Tail(order))

\* the shape most rebuild overloads share: for each <<descriptor, k>> of
\* order, in order, build_memory_primitive(descriptor, m_primitive_deps
\* [index][k]); then m_mkldnn_primitives[index] = new T(...) over the slots
\* at the positions args of the entry
Rebuild(R, index, order, type, tag, args, vendor) ==
    LET R1 == rebuild_memory_primitives(R, index, order)
    IN  IF vendor # 0
        THEN Throw(R1, "mkldnn::error")
        ELSE Return(set_primitive(R1, index, type, tag,
                        [k \in 1..Len(args) |-> Dep(R1, index, args[k])]),
                    index)

\* what a caller may hand to a rebuild overload: an index with a dependency
\* entry of the length the overload reads, whose slot is still empty or
\* holds a primitive of the overload's kind
Rebuildable(index, type, tag, n) ==
    /\ index \in DOMAIN m_primitive_deps
    /\ Len(m_primitive_deps[index]) = n
    /\ IF m_mkldnn_primitives[index + 1] = 0 THEN TRUE
       ELSE /\ heap[m_mkldnn_primitives[index + 1]].type = type
            /\ heap[m_mkldnn_primitives[index + 1]].desc = tag

Indices == 0..(Len(m_mkldnn_primitives) - 1)

\* room for a call that appends n slots
Room(n) ==
    /\ alive
    /\ ncalls < MaxCalls
    /\ Len(m_mkldnn_primitives) + n <= MaxPrimitives

\* a member call and what it leaves: the containers as the function left
\* them, and for the caller the outcome.  type is the primitive the call is
\* for, index the index returned (construct, reserve) or handed in
\* (rebuild), pair the forward index that goes with a max-pooling backward
CallWith(op, kind, type, pair, arg, out) ==
    /\ m_mkldnn_primitives' = out.reg.prims
    /\ m_primitive_deps' = out.reg.deps
    /\ m_workspaces' = out.reg.wss
    /\ m_workspace_bufs' = out.reg.bufs
    /\ heap' = out.reg.heap
    /\ call' = [op |-> op, kind |-> kind, type |-> type,
                status |-> out.status, index |-> out.value,
                pair |-> IF out.status = "ok" THEN pair ELSE 0 - 1,
                arg |-> arg]
    /\ ncalls' = ncalls + 1
    /\ UNCHANGED <<alive, teardown, desc_call>>
    /\ UNCHANGED <<magic_vars, gpu_vars>>

Call(op, kind, type, pair, out) == CallWith(op, kind, type, pair, <<>>, out)

Vendor(n) == 0..n

\* convolution_algo fixed to convolution_direct, can_use_conv_auto not asked
convolution_algo_direct(can_use_conv_auto) == "algorithm::convolution_direct"

\* mkldnn::algorithm convolution_algo = mkldnn_utils::can_use_conv_auto()
\*     ? mkldnn::algorithm::convolution_auto
\*     : mkldnn::algorithm::convolution_direct;
convolution_algo(can_use_conv_auto) ==
    IF can_use_conv_auto THEN "algorithm::convolution_auto"
    ELSE "algorithm::convolution_direct"

\* what a convolution construct does with the algorithm: asked is the number
\* of times can_use_conv_auto() is called, descs the algorithm of each
\* descriptor the call builds, in the order they are written
conv_forward_algo(can_use_conv_auto) ==
    [can_use_conv_auto |-> can_use_conv_auto, asked |-> 1,
     descs |-> <<[prop_kind |-> "prop_kind::forward",
                  algorithm |-> convolution_algo(can_use_conv_auto)]>>]

\* the backward descriptor, and the forward descriptor that is its hint
conv_backward_algo(can_use_conv_auto) ==
    [can_use_conv_auto |-> can_use_conv_auto, asked |-> 1,
     descs |-> <<[prop_kind |-> "backward",
                  algorithm |-> convolution_algo(can_use_conv_auto)],
                 [prop_kind |-> "prop_kind::forward",
                  algorithm |-> convolution_algo(can_use_conv_auto)]>>]

\* ---- build_memory_descriptor ----
\* mkldnn::memory::format values, ngraph shapes and element types the calls
\* are made with
Formats == {"any", "blocked", "x", "nc", "nchw", "nhwc"}

Shapes == {<<2>>, <<2, 3>>, <<1, 2, 3, 4>>}

ElementTypes == {"f32", "i8", "u8", "i32"}

TensorViewWrappers ==
    {[shape |-> shape, element_type |-> et] : shape \in Shapes, et \in ElementTypes}

\* mkldnn_utils::get_mkldnn_data_type(et)
get_mkldnn_data_type(et) ==
    CASE et = "f32" -> "data_type::f32"
      [] et = "i8" -> "data_type::s8"
      [] et = "u8" -> "data_type::u8"
      [] et = "i32" -> "data_type::s32"

\* mkldnn::memory::dims(shape.begin(), shape.end())
memory_dims(shape) == [i \in 1..Len(shape) |-> shape[i]]

\* mkldnn::memory::desc(dims, data_type, format)
memory_desc(dims, data_type, format) ==
    [dims |-> dims, data_type |-> data_type, format |-> format]

\* no descriptor: what the caller holds when the call threw
NoDesc == [dims |-> <<>>, data_type |-> "", format |-> ""]

\* a descriptor builder that would fall back to the format `any` when asked
\* for `blocked`
build_memory_descriptor_fallback(shape, et, fmt) ==
    [status |-> "ok",
     desc |-> memory_desc(memory_dims(shape), get_mkldnn_data_type(et),
                          IF fmt = "blocked" THEN "any" ELSE fmt)]

\* mkldnn::memory::desc build_memory_descriptor(const Shape&, const
\* element::Type&, mkldnn::memory::format) const
build_memory_descriptor(shape, et, fmt) ==
    IF fmt = "blocked"
    THEN [status |-> "ngraph_error", desc |-> NoDesc]
    ELSE [status |-> "ok",
          desc |-> memory_desc(memory_dims(shape), get_mkldnn_data_type(et),
                               fmt)]

\* mkldnn::memory::desc build_memory_descriptor(const TensorViewWrapper&,
\* mkldnn::memory::format) const
build_memory_descriptor_tvw(tvw, fmt) ==
    IF fmt = "blocked"
    THEN [status |-> "ngraph_error", desc |-> NoDesc]
    ELSE [status |-> "ok",
          desc |-> memory_desc(memory_dims(tvw.shape),
                               get_mkldnn_data_type(tvw.element_type), fmt)]

NoDescCall ==
    [overload |-> "none", shape |-> <<>>, et |-> "", fmt |-> "",
     out |-> [status |-> "none", desc |-> NoDesc]]

\* a call of a const member: only the caller's view of it changes
DescCall(overload, shape, et, fmt, out) ==
    /\ alive
    /\ desc_call' = [overload |-> overload, shape |-> shape, et |-> et,
                     fmt |-> fmt, out |-> out]
    /\ UNCHANGED <<registry_vars, heap, alive, teardown, call, ncalls>>
    /\ UNCHANGED <<magic_vars, gpu_vars>>

Call_build_memory_descriptor ==
    \E shape \in Shapes, et \in ElementTypes, fmt \in Formats :
        DescCall("Shape", shape, et, fmt,
                 build_memory_descriptor(shape, et, fmt))

Call_build_memory_descriptor_tvw ==
    \E tvw \in TensorViewWrappers, fmt \in Formats :
        DescCall("TensorViewWrapper", tvw.shape, tvw.element_type, fmt,
                 build_memory_descriptor_tvw(tvw, fmt))

\* static_cast<int>(v) of a size_t: the low 32 bits, read as two's complement
static_cast_int(v) ==
    The({IF w[2] >= 32768 THEN (w[2] - 65536) * 65536 + w[1]
         ELSE w[2] * 65536 + w[1] :
         w \in {Low32(U64(v))}})

\* the softmax nodes handed in: the descriptor of input 0, as
\* mkldnn_utils::get_input_mkldnn_md(node, 0) gives it, and the axes of the
\* node, any set of axes of that input
SoftmaxNodes ==
    UNION {{[axes |-> axes,
             input_md |-> memory_desc(memory_dims(shape), "data_type::f32",
                                      CASE Len(shape) = 1 -> "x"
                                        [] Len(shape) = 2 -> "nc"
                                        [] OTHER -> "nchw")] :
            axes \in SUBSET (0..(Len(shape) - 1))} : shape \in Shapes}

\* mkldnn::softmax_forward::desc(prop_kind, data_desc, softmax_axis)
softmax_forward_desc(prop_kind, data_desc, softmax_axis) ==
    [prop_kind |-> prop_kind, data_desc |-> data_desc,
     softmax_axis |-> softmax_axis]

NoSoftmaxDesc == softmax_forward_desc("", NoDesc, 0 - 1)

\* *(axes.begin()): the smallest element of the std::set
begin(axes) == CHOOSE a \in axes : \A b \in axes : a <= b

\* get_softmax_forward_desc without the test of line 1874, for a node that
\* has an axis
get_softmax_forward_desc_first_axis(node) ==
    IF node.axes = {}
    THEN [status |-> "ngraph_error", desc |-> NoSoftmaxDesc]
    ELSE [status |-> "ok",
          desc |-> softmax_forward_desc("prop_kind::forward_scoring",
                       node.input_md, static_cast_int(begin(node.axes)))]

\* mkldnn::softmax_forward::desc get_softmax_forward_desc(const Node* node)
get_softmax_forward_desc(node) ==
    IF Cardinality(node.axes) # 1
    THEN [status |-> "ngraph_error", desc |-> NoSoftmaxDesc]
    ELSE [status |-> "ok",
          desc |-> softmax_forward_desc("prop_kind::forward_scoring",
                       node.input_md, static_cast_int(begin(node.axes)))]

Call_get_softmax_forward_desc ==
    \E node \in SoftmaxNodes :
        /\ alive
        /\ desc_call' = [overload |-> "get_softmax_forward_desc",
                         node |-> node,
                         out |-> get_softmax_forward_desc(node)]
        /\ UNCHANGED <<registry_vars, heap, alive, teardown, call, ncalls>>
        /\ UNCHANGED <<magic_vars, gpu_vars>>

\* a biased convolution that would record the bias slot before the weights
build_convolution_forward_bias_first ==
    \E vendor \in Vendor(1) :
        /\ Room(5)
        /\ Call("build_convolution_forward_bias", "construct",
                "convolution_forward", 0 - 1,
                Construct(Registry,
                          <<"input_data_desc", "weights_desc", "bias_desc",
                            "result_desc">>,
                          "convolution_forward", "", <<1, 2, 3, 4>>,
                          <<1, 3, 2, 4>>, vendor, TRUE))



(***************************************************************************)
(* The read accessors.  They are const or return a reference to a member;  *)
(* what the caller gets is recorded in ret.                                *)
(***************************************************************************)
\* a read and what it leaves: ret is the value of the reference returned
Read(op, index, status, ret) ==
    /\ alive
    /\ call' = [op |-> op, kind |-> "read", type |-> "", status |-> status,
                index |-> index, pair |-> 0 - 1, arg |-> <<>>, ret |-> ret]
    /\ UNCHANGED <<alive, teardown, ncalls, desc_call>>
    /\ UNCHANGED <<magic_vars, gpu_vars>>

\* const std::vector<mkldnn::primitive*>& get_mkldnn_primitives() const
get_mkldnn_primitives ==
    /\ Read("get_mkldnn_primitives", 0 - 1, "ok", m_mkldnn_primitives)
    /\ UNCHANGED <<registry_vars, heap>>

\* const std::vector<char*>& get_mkldnn_workspaces()
get_mkldnn_workspaces ==
    /\ Read("get_mkldnn_workspaces", 0 - 1, "ok", m_workspace_bufs)
    /\ UNCHANGED <<registry_vars, heap>>

\* get_primitive_deps with m_primitive_deps[index] for m_primitive_deps.at(
\* index): operator[] makes an empty entry for an index that has none
get_primitive_deps_subscript ==
    \E index \in 0..MaxPrimitives :
        /\ Read("get_primitive_deps", index, "ok",
                IF index \in DOMAIN m_primitive_deps
                THEN m_primitive_deps[index] ELSE <<>>)
        /\ m_primitive_deps' =
               IF index \in DOMAIN m_primitive_deps THEN m_primitive_deps
               ELSE set_primitive_deps(Registry, index, <<>>).deps
        /\ UNCHANGED <<m_mkldnn_primitives, m_workspaces, m_workspace_bufs,
                       heap>>

\* const std::vector<size_t>& get_primitive_deps(size_t index) const:
\* m_primitive_deps.at(index) throws std::out_of_range for an index that has
\* no entry
get_primitive_deps ==
    \E index \in 0..MaxPrimitives :
        /\ IF index \in DOMAIN m_primitive_deps
           THEN Read("get_primitive_deps", index, "ok",
                     m_primitive_deps[index])
           ELSE Read("get_primitive_deps", index, "std::out_of_range", <<>>)
        /\ UNCHANGED <<registry_vars, heap>>
\* size_t build_quantize_reorder(input_desc, result_desc, scales)
build_quantize_reorder_body(R, vendor) ==
    Construct(R, <<"input_desc", "result_desc">>,
              "reorder", "output_scales", <<1, 2>>, <<1, 2>>, vendor, FALSE)

\* size_t build_quantize_reorder(input_desc, result_desc, scales)
build_quantize_reorder ==
    \E vendor \in Vendor(1) :
        /\ Room(3)
        /\ Call("build_quantize_reorder", "construct", "reorder", 0 - 1,
                build_quantize_reorder_body(Registry, vendor))

\* void build_quantize_reorder(input_desc, result_desc, scales, quantize_index, mask)
build_quantize_reorder_at ==
    \E index \in Indices, vendor \in Vendor(1) :
        /\ alive /\ ncalls < MaxCalls
        /\ Rebuildable(index, "reorder", "output_scales", 2)
        /\ Call("build_quantize_reorder", "rebuild", "reorder", 0 - 1,
                Rebuild(Registry, index,
                        <<<<"input_desc", 0>>,
                          <<"result_desc", 1>>>>,
                        "reorder", "output_scales", <<0, 1>>, vendor))

\* size_t build_dequantization(node, input_desc, result_desc): the scale is read from
\* the node and handed to build_quantize_reorder
build_dequantization ==
    \E vendor \in Vendor(1) :
        /\ Room(3)
        /\ Call("build_dequantization", "construct", "reorder", 0 - 1,
                build_quantize_reorder_body(Registry, vendor))

\* size_t build_pooling_forward(pooling_algorithm, input_desc, result_desc, ...)
build_pooling_forward_body(R, vendor) ==
    Construct(R, <<"input_desc", "result_desc">>,
              "pooling_forward", "", <<1, 2>>, <<1, 2>>, vendor, FALSE)

\* size_t build_quantized_max_pool(node)
build_quantized_max_pool ==
    \E vendor \in Vendor(1) :
        /\ Room(3)
        /\ Call("build_quantized_max_pool", "construct", "pooling_forward", 0 - 1,
                build_pooling_forward_body(Registry, vendor))

\* size_t build_quantized_avg_pool(node)
build_quantized_avg_pool ==
    \E vendor \in Vendor(1) :
        /\ Room(3)
        /\ Call("build_quantized_avg_pool", "construct", "pooling_forward", 0 - 1,
                build_pooling_forward_body(Registry, vendor))

\* size_t build_convolution_forward(input_data_desc, weights_desc, result_desc, ...): convolution_algo is set once, from
\* mkldnn_utils::can_use_conv_auto(), and handed to the forward descriptor
build_convolution_forward ==
    \E vendor \in Vendor(1), can_use_conv_auto \in BOOLEAN :
        /\ Room(4)
        /\ CallWith("build_convolution_forward", "construct", "convolution_forward", 0 - 1,
                    conv_forward_algo(can_use_conv_auto),
                    Construct(Registry,
                              <<"input_data_desc", "weights_desc", "result_desc">>,
                              "convolution_forward", "", <<1, 2, 3>>, <<1, 2, 3>>, vendor, TRUE))

\* size_t build_quantized_convolution_forward(input_data_desc, weights_desc, result_desc, ...): convolution_algo is set once, from
\* mkldnn_utils::can_use_conv_auto(), and handed to the forward descriptor
build_quantized_convolution_forward ==
    \E vendor \in Vendor(1), can_use_conv_auto \in BOOLEAN :
        /\ Room(4)
        /\ CallWith("build_quantized_convolution_forward", "construct", "convolution_forward", 0 - 1,
                    conv_forward_algo(can_use_conv_auto),
                    Construct(Registry,
                              <<"input_data_desc", "weights_desc", "result_desc">>,
                              "convolution_forward", "", <<1, 2, 3>>, <<1, 2, 3>>, vendor, FALSE))

\* size_t build_quantized_convolution_forward(input_data_desc, weights_desc, bias_desc, result_desc, ...): convolution_algo is set once, from
\* mkldnn_utils::can_use_conv_auto(), and handed to the forward descriptor
build_quantized_convolution_forward_bias ==
    \E vendor \in Vendor(1), can_use_conv_auto \in BOOLEAN :
        /\ Room(5)
        /\ CallWith("build_quantized_convolution_forward_bias", "construct", "convolution_forward", 0 - 1,
                    conv_forward_algo(can_use_conv_auto),
                    Construct(Registry,
                              <<"input_data_desc", "weights_desc", "bias_desc", "result_desc">>,
                              "convolution_forward", "", <<1, 2, 3, 4>>, <<1, 2, 3, 4>>, vendor, FALSE))

\* size_t build_convolution_forward(input_data_desc, weights_desc, bias_desc, result_desc, ...): convolution_algo is set once, from
\* mkldnn_utils::can_use_conv_auto(), and handed to the forward descriptor
build_convolution_forward_bias ==
    \E vendor \in Vendor(1), can_use_conv_auto \in BOOLEAN :
        /\ Room(5)
        /\ CallWith("build_convolution_forward_bias", "construct", "convolution_forward", 0 - 1,
                    conv_forward_algo(can_use_conv_auto),
                    Construct(Registry,
                              <<"input_data_desc", "weights_desc", "bias_desc", "result_desc">>,
                              "convolution_forward", "", <<1, 2, 3, 4>>, <<1, 2, 3, 4>>, vendor, TRUE))

\* size_t build_convolution_backward_weights_bias(in_data_desc, in_delta_desc, out_weights_delta_desc, out_bias_delta_desc, ...): convolution_algo is set once, from
\* mkldnn_utils::can_use_conv_auto(), and handed to the backward descriptor and the
\* forward descriptor that is its hint
build_convolution_backward_weights_bias ==
    \E vendor \in Vendor(1), can_use_conv_auto \in BOOLEAN :
        /\ Room(5)
        /\ CallWith("build_convolution_backward_weights_bias", "construct", "convolution_backward_weights", 0 - 1,
                    conv_backward_algo(can_use_conv_auto),
                    Construct(Registry,
                              <<"in_data_desc", "in_delta_desc", "out_weights_delta_desc", "out_bias_delta_desc">>,
                              "convolution_backward_weights", "bias", <<1, 2, 3, 4>>, <<1, 2, 3, 4>>, vendor, FALSE))

\* void build_convolution_backward_weights_bias(bwd_desc, fwd_desc, conv_index)
build_convolution_backward_weights_bias_at ==
    \E index \in Indices, vendor \in Vendor(1) :
        /\ alive /\ ncalls < MaxCalls
        /\ Rebuildable(index, "convolution_backward_weights", "bias", 4)
        /\ Call("build_convolution_backward_weights_bias", "rebuild", "convolution_backward_weights", 0 - 1,
                Rebuild(Registry, index,
                        <<<<"bwd_desc.data.src_desc", 0>>,
                          <<"bwd_desc.data.diff_dst_desc", 1>>,
                          <<"bwd_desc.data.diff_weights_desc", 2>>,
                          <<"bwd_desc.data.diff_bias_desc", 3>>>>,
                        "convolution_backward_weights", "bias", <<0, 1, 2, 3>>, vendor))

\* size_t build_convolution_backward_weights(input_desc, delta_desc, result_desc, ...): convolution_algo is set once, from
\* mkldnn_utils::can_use_conv_auto(), and handed to the backward descriptor and the
\* forward descriptor that is its hint
build_convolution_backward_weights ==
    \E vendor \in Vendor(1), can_use_conv_auto \in BOOLEAN :
        /\ Room(4)
        /\ CallWith("build_convolution_backward_weights", "construct", "convolution_backward_weights", 0 - 1,
                    conv_backward_algo(can_use_conv_auto),
                    Construct(Registry,
                              <<"input_desc", "delta_desc", "result_desc">>,
                              "convolution_backward_weights", "", <<1, 2, 3>>, <<1, 2, 3>>, vendor, FALSE))

\* void build_convolution_backward_weights(bwd_desc, fwd_desc, conv_index)
build_convolution_backward_weights_at ==
    \E index \in Indices, vendor \in Vendor(1) :
        /\ alive /\ ncalls < MaxCalls
        /\ Rebuildable(index, "convolution_backward_weights", "", 3)
        /\ Call("build_convolution_backward_weights", "rebuild", "convolution_backward_weights", 0 - 1,
                Rebuild(Registry, index,
                        <<<<"bwd_desc.data.src_desc", 0>>,
                          <<"bwd_desc.data.diff_dst_desc", 1>>,
                          <<"bwd_desc.data.diff_weights_desc", 2>>>>,
                        "convolution_backward_weights", "", <<0, 1, 2>>, vendor))

\* size_t build_convolution_backward_data(weights_desc, delta_desc, result_desc, ...): convolution_algo is set once, from
\* mkldnn_utils::can_use_conv_auto(), and handed to the backward descriptor and the
\* forward descriptor that is its hint
build_convolution_backward_data ==
    \E vendor \in Vendor(1), can_use_conv_auto \in BOOLEAN :
        /\ Room(4)
        /\ CallWith("build_convolution_backward_data", "construct", "convolution_backward_data", 0 - 1,
                    conv_backward_algo(can_use_conv_auto),
                    Construct(Registry,
                              <<"weights_desc", "delta_desc", "result_desc">>,
                              "convolution_backward_data", "", <<2, 1, 3>>, <<1, 2, 3>>, vendor, FALSE))

\* void build_convolution_backward_data(bwd_desc, fwd_desc, conv_index)
build_convolution_backward_data_at ==
    \E index \in Indices, vendor \in Vendor(1) :
        /\ alive /\ ncalls < MaxCalls
        /\ Rebuildable(index, "convolution_backward_data", "", 3)
        /\ Call("build_convolution_backward_data", "rebuild", "convolution_backward_data", 0 - 1,
                Rebuild(Registry, index,
                        <<<<"bwd_desc.data.weights_desc", 0>>,
                          <<"bwd_desc.data.diff_dst_desc", 1>>,
                          <<"bwd_desc.data.diff_src_desc", 2>>>>,
                        "convolution_backward_data", "", <<1, 0, 2>>, vendor))

\* size_t build_pooling_forward(pooling_algorithm, input_desc, result_desc, ...)
build_pooling_forward ==
    \E vendor \in Vendor(1) :
        /\ Room(3)
        /\ Call("build_pooling_forward", "construct", "pooling_forward", 0 - 1,
                build_pooling_forward_body(Registry, vendor))

\* void build_pooling_forward(pool_desc, pool_index)
build_pooling_forward_at ==
    \E index \in Indices, vendor \in Vendor(1) :
        /\ alive /\ ncalls < MaxCalls
        /\ Rebuildable(index, "pooling_forward", "", 2)
        /\ Call("build_pooling_forward", "rebuild", "pooling_forward", 0 - 1,
                Rebuild(Registry, index,
                        <<<<"pool_desc.data.src_desc", 0>>,
                          <<"pool_desc.data.dst_desc", 1>>>>,
                        "pooling_forward", "", <<0, 1>>, vendor))

\* size_t build_pooling_backward(pooling_algorithm, diff_dst_desc, diff_src_desc, ...)
build_pooling_backward ==
    \E vendor \in Vendor(1) :
        /\ Room(3)
        /\ Call("build_pooling_backward", "construct", "pooling_backward", 0 - 1,
                Construct(Registry,
                          <<"diff_dst_desc", "diff_src_desc">>,
                          "pooling_backward", "", <<1, 2>>, <<1, 2>>, vendor, FALSE))

\* void build_pooling_backward(pool_desc, pool_fwd_desc, pool_index)
build_pooling_backward_at ==
    \E index \in Indices, vendor \in Vendor(1) :
        /\ alive /\ ncalls < MaxCalls
        /\ Rebuildable(index, "pooling_backward", "", 2)
        /\ Call("build_pooling_backward", "rebuild", "pooling_backward", 0 - 1,
                Rebuild(Registry, index,
                        <<<<"pool_desc.data.diff_dst_desc", 0>>,
                          <<"pool_desc.data.diff_src_desc", 1>>>>,
                        "pooling_backward", "", <<0, 1>>, vendor))

\* size_t build_max_pooling_backward(pooling_algorithm, fprop_src_desc,
\* diff_dst_desc, diff_src_desc, ...): the library is asked for fwd_pd, for
\* the forward primitive and for the backward primitive
build_max_pooling_backward ==
    \E vendor \in Vendor(3) :
        /\ Room(6)
        /\ LET R == Registry
               fprop_src_index == Size(R)
               diff_dst_index == Size(R) + 1
               diff_src_index == Size(R) + 2
               R3 == build_memory_primitives(R,
                         <<"fprop_src_desc", "diff_dst_desc", "diff_src_desc">>)
               ws_index == Size(R3)
               R4 == build_memory_primitive(R3,
                         "fwd_pd.workspace_primitive_desc().desc()")
               ws_buf_index == Len(R4.wss)
               R5 == insert_workspace(R4, MKLDNNWorkspace(R4))
               fwd_primitive_index == Size(R5)
               R6 == add_primitive(R5, "pooling_forward", "workspace",
                         <<fprop_src_index, diff_src_index, ws_index>>)
               bwd_primitive_index == Size(R6)
               R7 == add_primitive(R6, "pooling_backward", "workspace",
                         <<diff_dst_index, ws_index, diff_src_index>>)
               R8 == set_primitive_deps(R7, fwd_primitive_index,
                         <<fprop_src_index, diff_src_index, ws_index, ws_buf_index>>)
               R9 == set_primitive_deps(R8, bwd_primitive_index,
                         <<diff_dst_index, ws_index, diff_src_index, ws_buf_index>>)
           IN  Call("build_max_pooling_backward", "construct",
                    "pooling_backward", fwd_primitive_index,
                    IF vendor = 1 THEN Throw(R3, "mkldnn::error")
                    ELSE IF vendor = 2 THEN Throw(R5, "mkldnn::error")
                    ELSE IF vendor = 3 THEN Throw(R6, "mkldnn::error")
                    ELSE Return(R9, bwd_primitive_index))

\* void build_max_pooling_backward(bwd_pool_desc, fwd_pool_desc,
\* fprop_src_desc, fwd_pool_index, bwd_pool_index).  The two indices are a
\* pair: both reserved and still empty, or both holding the primitives that
\* share one workspace buffer
build_max_pooling_backward_at ==
    \E fwd_pool_index \in Indices, bwd_pool_index \in Indices,
       vendor \in Vendor(3) :
        /\ alive /\ ncalls < MaxCalls
        /\ fwd_pool_index # bwd_pool_index
        /\ Rebuildable(fwd_pool_index, "pooling_forward", "workspace", 4)
        /\ Rebuildable(bwd_pool_index, "pooling_backward", "workspace", 4)
        /\ \/ /\ m_mkldnn_primitives[fwd_pool_index + 1] = 0
              /\ m_mkldnn_primitives[bwd_pool_index + 1] = 0
           \/ /\ m_mkldnn_primitives[fwd_pool_index + 1] # 0
              /\ m_mkldnn_primitives[bwd_pool_index + 1] # 0
              /\ m_primitive_deps[fwd_pool_index][4]
                     = m_primitive_deps[bwd_pool_index][4]
        /\ LET R == Registry
               fprop_src_index == Dep(R, fwd_pool_index, 0)
               R1 == build_memory_primitive_at(R, "fprop_src_desc",
                                               fprop_src_index)
               diff_dst_index == Dep(R1, bwd_pool_index, 0)
               R2 == build_memory_primitive_at(R1,
                         "bwd_pool_desc.data.diff_dst_desc", diff_dst_index)
               diff_src_index == Dep(R2, fwd_pool_index, 1)
               R3 == build_memory_primitive_at(R2,
                         "bwd_pool_desc.data.diff_src_desc", diff_src_index)
               R4 == set_dep(R3, bwd_pool_index, 2, diff_src_index)
               ws_index == Dep(R4, fwd_pool_index, 1)
               R5 == build_memory_primitive_at(R4,
                         "fwd_pd.workspace_primitive_desc().desc()", ws_index)
               R6 == set_dep(R5, bwd_pool_index, 1, ws_index)
               ws_buf_index == Len(R6.wss)
               R7 == insert_workspace(R6, MKLDNNWorkspace(R6))
               R8 == set_dep(set_dep(R7, fwd_pool_index, 3, ws_buf_index),
                             bwd_pool_index, 3, ws_buf_index)
               R9 == set_primitive(R8, fwd_pool_index, "pooling_forward",
                         "workspace",
                         <<fprop_src_index, diff_src_index, ws_index>>)
               R10 == set_primitive(R9, bwd_pool_index, "pooling_backward",
                          "workspace",
                          <<diff_dst_index, ws_index, diff_src_index>>)
           IN  Call("build_max_pooling_backward", "rebuild",
                    "pooling_backward", fwd_pool_index,
                    IF vendor = 1 THEN Throw(R4, "mkldnn::error")
                    ELSE IF vendor = 2 THEN Throw(R8, "mkldnn::error")
                    ELSE IF vendor = 3 THEN Throw(R9, "mkldnn::error")
                    ELSE Return(R10, bwd_pool_index))

\* size_t build_max_pooling_with_indices_forward(pooling_algorithm, src_desc,
\* dst_desc, ...): the library is asked for fwd_pd and for the primitive
build_max_pooling_with_indices_forward ==
    \E vendor \in Vendor(2) :
        /\ Room(4)
        /\ LET R == Registry
               src_index == Size(R)
               dst_index == Size(R) + 1
               R2 == build_memory_primitives(R, <<"src_desc", "dst_desc">>)
               ws_index == Size(R2)
               R3 == build_memory_primitive(R2,
                         "fwd_pd.workspace_primitive_desc().desc()")
               fwd_primitive_index == Size(R3)
               R4 == add_primitive(R3, "pooling_forward", "indices",
                                   <<src_index, dst_index, ws_index>>)
           IN  Call("build_max_pooling_with_indices_forward", "construct",
                    "pooling_forward", 0 - 1,
                    IF vendor = 1 THEN Throw(R2, "mkldnn::error")
                    ELSE IF vendor = 2 THEN Throw(R3, "mkldnn::error")
                    ELSE Return(set_primitive_deps(R4, fwd_primitive_index,
                                    <<src_index, dst_index, ws_index>>),
                                fwd_primitive_index))

\* void build_max_pooling_with_indices_forward(max_pool_desc, max_pool_index)
build_max_pooling_with_indices_forward_at ==
    \E max_pool_index \in Indices, vendor \in Vendor(2) :
        /\ alive /\ ncalls < MaxCalls
        /\ Rebuildable(max_pool_index, "pooling_forward", "indices", 3)
        /\ LET R == Registry
               R2 == rebuild_memory_primitives(R, max_pool_index,
                         <<<<"max_pool_desc.data.src_desc", 0>>,
                           <<"max_pool_desc.data.dst_desc", 1>>>>)
               R3 == rebuild_memory_primitives(R2, max_pool_index,
                         <<<<"fwd_pd.workspace_primitive_desc().desc()", 2>>>>)
           IN  Call("build_max_pooling_with_indices_forward", "rebuild",
                    "pooling_forward", 0 - 1,
                    IF vendor = 1 THEN Throw(R2, "mkldnn::error")
                    ELSE IF vendor = 2 THEN Throw(R3, "mkldnn::error")
                    ELSE Return(set_primitive(R3, max_pool_index,
                                    "pooling_forward", "indices",
                                    <<Dep(R3, max_pool_index, 0),
                                      Dep(R3, max_pool_index, 1),
                                      Dep(R3, max_pool_index, 2)>>),
                                max_pool_index))

\* size_t build_max_pooling_with_indices_backward(pooling_algorithm,
\* diff_dst_desc, diff_src_desc, ...)
build_max_pooling_with_indices_backward ==
    \E vendor \in Vendor(2) :
        /\ Room(4)
        /\ LET R == Registry
               diff_dst_index == Size(R)
               diff_src_index == Size(R) + 1
               R2 == build_memory_primitives(R,
                         <<"diff_dst_desc", "diff_src_desc">>)
               fprop_ws_index == Size(R2)
               R3 == build_memory_primitive(R2,
                         "fwd_pd.workspace_primitive_desc().desc()")
               bwd_primitive_index == Size(R3)
               R4 == add_primitive(R3, "pooling_backward", "indices",
                         <<diff_dst_index, fprop_ws_index, diff_src_index>>)
           IN  Call("build_max_pooling_with_indices_backward", "construct",
                    "pooling_backward", 0 - 1,
                    IF vendor = 1 THEN Throw(R2, "mkldnn::error")
                    ELSE IF vendor = 2 THEN Throw(R3, "mkldnn::error")
                    ELSE Return(set_primitive_deps(R4, bwd_primitive_index,
                                    <<diff_dst_index, fprop_ws_index,
                                      diff_src_index>>),
                                bwd_primitive_index))

\* void build_max_pooling_with_indices_backward(bwd_pool_desc, fwd_pool_desc,
\* max_pool_index)
build_max_pooling_with_indices_backward_at ==
    \E max_pool_index \in Indices, vendor \in Vendor(2) :
        /\ alive /\ ncalls < MaxCalls
        /\ Rebuildable(max_pool_index, "pooling_backward", "indices", 3)
        /\ LET R == Registry
               R2 == rebuild_memory_primitives(R, max_pool_index,
                         <<<<"bwd_pool_desc.data.diff_dst_desc", 0>>,
                           <<"bwd_pool_desc.data.diff_src_desc", 2>>>>)
               R3 == rebuild_memory_primitives(R2, max_pool_index,
                         <<<<"fwd_pd.workspace_primitive_desc().desc()", 1>>>>)
           IN  Call("build_max_pooling_with_indices_backward", "rebuild",
                    "pooling_backward", 0 - 1,
                    IF vendor = 1 THEN Throw(R2, "mkldnn::error")
                    ELSE IF vendor = 2 THEN Throw(R3, "mkldnn::error")
                    ELSE Return(set_primitive(R3, max_pool_index,
                                    "pooling_backward", "indices",
                                    <<Dep(R3, max_pool_index, 0),
                                      Dep(R3, max_pool_index, 1),
                                      Dep(R3, max_pool_index, 2)>>),
                                max_pool_index))

\* size_t build_reorder(input_desc, result_desc)
build_reorder ==
    \E vendor \in Vendor(1) :
        /\ Room(3)
        /\ Call("build_reorder", "construct", "reorder", 0 - 1,
                Construct(Registry,
                          <<"input_desc", "result_desc">>,
                          "reorder", "", <<1, 2>>, <<1, 2>>, vendor, TRUE))

\* void build_reorder(input_desc, result_desc, reorder_index)
build_reorder_at ==
    \E index \in Indices, vendor \in Vendor(1) :
        /\ alive /\ ncalls < MaxCalls
        /\ Rebuildable(index, "reorder", "", 2)
        /\ Call("build_reorder", "rebuild", "reorder", 0 - 1,
                Rebuild(Registry, index,
                        <<<<"input_desc", 0>>,
                          <<"result_desc", 1>>>>,
                        "reorder", "", <<0, 1>>, vendor))

\* size_t build_lrn_forward(input_desc, result_desc, alpha, beta, bias, nsize)
build_lrn_forward ==
    \E vendor \in Vendor(1) :
        /\ Room(3)
        /\ Call("build_lrn_forward", "construct", "lrn_forward", 0 - 1,
                Construct(Registry,
                          <<"input_desc", "result_desc">>,
                          "lrn_forward", "", <<1, 2>>, <<1, 2>>, vendor, FALSE))

\* void build_lrn_forward(lrn_desc, lrn_index)
build_lrn_forward_at ==
    \E index \in Indices, vendor \in Vendor(1) :
        /\ alive /\ ncalls < MaxCalls
        /\ Rebuildable(index, "lrn_forward", "", 2)
        /\ Call("build_lrn_forward", "rebuild", "lrn_forward", 0 - 1,
                Rebuild(Registry, index,
                        <<<<"lrn_desc.data.data_desc", 0>>,
                          <<"lrn_desc.data.data_desc", 1>>>>,
                        "lrn_forward", "", <<0, 1>>, vendor))

\* size_t build_relu_forward(input_desc, result_desc)
build_relu_forward ==
    \E vendor \in Vendor(1) :
        /\ Room(3)
        /\ Call("build_relu_forward", "construct", "eltwise_forward", 0 - 1,
                Construct(Registry,
                          <<"input_desc", "result_desc">>,
                          "eltwise_forward", "eltwise_relu", <<1, 2>>, <<1, 2>>, vendor, FALSE))

\* void build_relu_forward(relu_desc, relu_index)
build_relu_forward_at ==
    \E index \in Indices, vendor \in Vendor(1) :
        /\ alive /\ ncalls < MaxCalls
        /\ Rebuildable(index, "eltwise_forward", "eltwise_relu", 2)
        /\ Call("build_relu_forward", "rebuild", "eltwise_forward", 0 - 1,
                Rebuild(Registry, index,
                        <<<<"relu_desc.data.data_desc", 0>>,
                          <<"relu_desc.data.data_desc", 1>>>>,
                        "eltwise_forward", "eltwise_relu", <<0, 1>>, vendor))

\* size_t build_relu_backward(input_desc, delta_desc, result_desc)
build_relu_backward ==
    \E vendor \in Vendor(1) :
        /\ Room(4)
        /\ Call("build_relu_backward", "construct", "eltwise_backward", 0 - 1,
                Construct(Registry,
                          <<"input_desc", "delta_desc", "result_desc">>,
                          "eltwise_backward", "eltwise_relu", <<1, 2, 3>>, <<1, 2, 3>>, vendor, FALSE))

\* void build_relu_backward(bwd_desc, fwd_desc, relu_index)
build_relu_backward_at ==
    \E index \in Indices, vendor \in Vendor(1) :
        /\ alive /\ ncalls < MaxCalls
        /\ Rebuildable(index, "eltwise_backward", "eltwise_relu", 3)
        /\ Call("build_relu_backward", "rebuild", "eltwise_backward", 0 - 1,
                Rebuild(Registry, index,
                        <<<<"bwd_desc.data.data_desc", 0>>,
                          <<"bwd_desc.data.diff_data_desc", 1>>,
                          <<"bwd_desc.data.data_desc", 2>>>>,
                        "eltwise_backward", "eltwise_relu", <<0, 1, 2>>, vendor))

\* size_t build_sigmoid_forward(input_desc, result_desc)
build_sigmoid_forward ==
    \E vendor \in Vendor(1) :
        /\ Room(3)
        /\ Call("build_sigmoid_forward", "construct", "eltwise_forward", 0 - 1,
                Construct(Registry,
                          <<"input_desc", "result_desc">>,
                          "eltwise_forward", "eltwise_logistic", <<1, 2>>, <<1, 2>>, vendor, FALSE))

\* void build_sigmoid_forward(sigmoid_desc, sigmoid_index)
build_sigmoid_forward_at ==
    \E index \in Indices, vendor \in Vendor(1) :
        /\ alive /\ ncalls < MaxCalls
        /\ Rebuildable(index, "eltwise_forward", "eltwise_logistic", 2)
        /\ Call("build_sigmoid_forward", "rebuild", "eltwise_forward", 0 - 1,
                Rebuild(Registry, index,
                        <<<<"sigmoid_desc.data.data_desc", 0>>,
                          <<"sigmoid_desc.data.data_desc", 1>>>>,
                        "eltwise_forward", "eltwise_logistic", <<0, 1>>, vendor))

\* size_t build_sigmoid_backward(input_desc, delta_desc, result_desc)
build_sigmoid_backward ==
    \E vendor \in Vendor(1) :
        /\ Room(4)
        /\ Call("build_sigmoid_backward", "construct", "eltwise_backward", 0 - 1,
                Construct(Registry,
                          <<"input_desc", "delta_desc", "result_desc">>,
                          "eltwise_backward", "eltwise_logistic", <<1, 2, 3>>, <<1, 2, 3>>, vendor, FALSE))

\* void build_sigmoid_backward(bwd_desc, fwd_desc, sigmoid_index)
build_sigmoid_backward_at ==
    \E index \in Indices, vendor \in Vendor(1) :
        /\ alive /\ ncalls < MaxCalls
        /\ Rebuildable(index, "eltwise_backward", "eltwise_logistic", 3)
        /\ Call("build_sigmoid_backward", "rebuild", "eltwise_backward", 0 - 1,
                Rebuild(Registry, index,
                        <<<<"bwd_desc.data.data_desc", 0>>,
                          <<"bwd_desc.data.diff_data_desc", 1>>,
                          <<"bwd_desc.data.data_desc", 2>>>>,
                        "eltwise_backward", "eltwise_logistic", <<0, 1, 2>>, vendor))

\* size_t build_elementwise_add(input0_data_desc, input1_data_desc, result_desc, scale_vector, inputs_pd)
build_elementwise_add ==
    \E vendor \in Vendor(1) :
        /\ Room(4)
        /\ Call("build_elementwise_add", "construct", "sum", 0 - 1,
                Construct(Registry,
                          <<"input0_data_desc", "input1_data_desc", "result_desc">>,
                          "sum", "", <<1, 2, 3>>, <<1, 2, 3>>, vendor, FALSE))

\* void build_elementwise_add(sum_pd, add_index)
build_elementwise_add_at ==
    \E index \in Indices, vendor \in Vendor(1) :
        /\ alive /\ ncalls < MaxCalls
        /\ Rebuildable(index, "sum", "", 3)
        /\ Call("build_elementwise_add", "rebuild", "sum", 0 - 1,
                Rebuild(Registry, index,
                        <<<<"sum_pd.dst_primitive_desc().desc()", 0>>,
                          <<"sum_pd.dst_primitive_desc().desc()", 1>>,
                          <<"sum_pd.dst_primitive_desc().desc()", 2>>>>,
                        "sum", "", <<0, 1, 2>>, vendor))

\* size_t build_batchnorm_forward(input_desc, weights_desc, result_desc,
\* mean_desc, variance_desc, eps, use_global_stats, bn_training_flag, pops)
build_batchnorm_forward ==
    \E use_global_stats \in BOOLEAN, bn_training_flag \in BOOLEAN,
       vendor \in Vendor(1) :
        /\ Room(6)
        /\ Call("build_batchnorm_forward", "construct",
                "batch_normalization_forward", 0 - 1,
                IF bn_training_flag /\ ~use_global_stats
                THEN Construct(Registry,
                         <<"input_desc", "weights_desc", "result_desc",
                           "mean_desc", "variance_desc">>,
                         "batch_normalization_forward", "use_scale_shift",
                         <<1, 2, 3, 4, 5>>, <<1, 2, 3, 4, 5>>, vendor, FALSE)
                ELSE Construct(Registry,
                         <<"input_desc", "weights_desc", "result_desc",
                           "mean_desc", "variance_desc">>,
                         "batch_normalization_forward",
                         "use_scale_shift|use_global_stats",
                         <<1, 4, 5, 2, 3>>, <<1, 4, 5, 2, 3>>, vendor, FALSE))

\* void build_batchnorm_forward(batchnorm_desc, weights_desc,
\* bn_training_flag, batchnorm_index, pops): use_global_stats is bit 0 of
\* batchnorm_desc.data.flags.  On a constructed index the caller hands in
\* the flags and the training flag of the branch that constructed it
build_batchnorm_forward_at ==
    \E batchnorm_index \in Indices, use_global_stats \in BOOLEAN,
       bn_training_flag \in BOOLEAN, vendor \in Vendor(1) :
        /\ alive /\ ncalls < MaxCalls
        /\ Rebuildable(batchnorm_index, "batch_normalization_forward",
                       IF use_global_stats
                       THEN "use_scale_shift|use_global_stats"
                       ELSE "use_scale_shift", 5)
        /\ \/ m_mkldnn_primitives[batchnorm_index + 1] = 0
           \/ use_global_stats
           \/ bn_training_flag
        /\ Call("build_batchnorm_forward", "rebuild",
                "batch_normalization_forward", 0 - 1,
                IF bn_training_flag /\ ~use_global_stats
                THEN Rebuild(Registry, batchnorm_index,
                         <<<<"batchnorm_desc.data.data_desc", 0>>,
                           <<"weights_desc", 1>>,
                           <<"batchnorm_desc.data.data_desc", 2>>,
                           <<"batchnorm_desc.data.mean_desc", 3>>,
                           <<"batchnorm_desc.data.variance_desc", 4>>>>,
                         "batch_normalization_forward", "use_scale_shift",
                         <<0, 1, 2, 3, 4>>, vendor)
                ELSE Rebuild(Registry, batchnorm_index,
                         <<<<"batchnorm_desc.data.data_desc", 0>>,
                           <<"weights_desc", 3>>,
                           <<"batchnorm_desc.data.data_desc", 4>>,
                           <<"batchnorm_desc.data.mean_desc", 1>>,
                           <<"batchnorm_desc.data.variance_desc", 2>>>>,
                         "batch_normalization_forward",
                         IF use_global_stats
                         THEN "use_scale_shift|use_global_stats"
                         ELSE "use_scale_shift",
                         <<0, 1, 2, 3, 4>>, vendor))

\* size_t build_batchnorm_backward(weights_desc, input_desc, mean_desc, variance_desc, delta_desc, dinput_desc, dweights_desc, eps)
build_batchnorm_backward ==
    \E vendor \in Vendor(1) :
        /\ Room(8)
        /\ Call("build_batchnorm_backward", "construct", "batch_normalization_backward", 0 - 1,
                Construct(Registry,
                          <<"weights_desc", "input_desc", "mean_desc", "variance_desc", "delta_desc", "dinput_desc", "dweights_desc">>,
                          "batch_normalization_backward", "", <<2, 3, 4, 5, 1, 6, 7>>, <<1, 2, 3, 4, 5, 6, 7>>, vendor, FALSE))

\* void build_batchnorm_backward(batchnorm_desc, weights_desc, dweights_desc, batchnorm_index)
build_batchnorm_backward_at ==
    \E index \in Indices, vendor \in Vendor(1) :
        /\ alive /\ ncalls < MaxCalls
        /\ Rebuildable(index, "batch_normalization_backward", "", 7)
        /\ Call("build_batchnorm_backward", "rebuild", "batch_normalization_backward", 0 - 1,
                Rebuild(Registry, index,
                        <<<<"weights_desc", 0>>,
                          <<"batchnorm_desc.data.data_desc", 1>>,
                          <<"batchnorm_desc.data.mean_desc", 2>>,
                          <<"batchnorm_desc.data.variance_desc", 3>>,
                          <<"batchnorm_desc.data.diff_data_desc", 4>>,
                          <<"batchnorm_desc.data.data_desc", 5>>,
                          <<"dweights_desc", 6>>>>,
                        "batch_normalization_backward", "", <<1, 2, 3, 4, 0, 5, 6>>, vendor))

\* size_t build_rnn_forward(src_layer_desc, src_iter_desc, weights_layer_desc,
\* weights_iter_desc, bias_desc, dst_layer_desc, dst_iter_desc, ...): the
\* library is asked for rnn_layer_prim_desc and for the primitive
build_rnn_forward ==
    \E vendor \in Vendor(2) :
        /\ Room(9)
        /\ LET R == Registry
               base == Size(R)
               R7 == build_memory_primitives(R,
                         <<"src_layer_desc", "src_iter_desc",
                           "weights_layer_desc", "weights_iter_desc",
                           "bias_desc", "dst_layer_desc", "dst_iter_desc">>)
               workspace_index == Size(R7)
               R8 == build_memory_primitive(R7,
                         "rnn_layer_prim_desc.workspace_primitive_desc().desc()")
               workspace_buf_index == Len(R8.wss)
               R9 == insert_workspace(R8, MKLDNNWorkspace(R8))
               rnn_index == Size(R9)
               R10 == add_primitive(R9, "rnn_forward", "",
                          [k \in 1..8 |-> base + k - 1])
           IN  Call("build_rnn_forward", "construct", "rnn_forward", 0 - 1,
                    IF vendor = 1 THEN Throw(R7, "mkldnn::error")
                    ELSE IF vendor = 2 THEN Throw(R9, "mkldnn::error")
                    ELSE Return(set_primitive_deps(R10, rnn_index,
                                    [k \in 1..9 |->
                                        IF k = 9 THEN workspace_buf_index
                                        ELSE base + k - 1]),
                                rnn_index))

\* void build_rnn_forward(rnn_desc, rnn_index)
build_rnn_forward_at ==
    \E rnn_index \in Indices, vendor \in Vendor(2) :
        /\ alive /\ ncalls < MaxCalls
        /\ Rebuildable(rnn_index, "rnn_forward", "", 9)
        /\ LET R == Registry
               R7 == rebuild_memory_primitives(R, rnn_index,
                         <<<<"rnn_desc.data.src_layer_desc", 0>>,
                           <<"rnn_desc.data.src_iter_desc", 1>>,
                           <<"rnn_desc.data.weights_layer_desc", 2>>,
                           <<"rnn_desc.data.weights_iter_desc", 3>>,
                           <<"rnn_desc.data.bias_desc", 4>>,
                           <<"rnn_desc.data.dst_layer_desc", 5>>,
                           <<"rnn_desc.data.dst_iter_desc", 6>>>>)
               R8 == rebuild_memory_primitives(R7, rnn_index,
                         <<<<"rnn_layer_prim_desc.workspace_primitive_desc().desc()",
                             7>>>>)
               workspace_buf_index == Len(R8.wss)
               R9 == insert_workspace(R8, MKLDNNWorkspace(R8))
               R10 == set_dep(R9, rnn_index, 8, workspace_buf_index)
           IN  Call("build_rnn_forward", "rebuild", "rnn_forward", 0 - 1,
                    IF vendor = 1 THEN Throw(R7, "mkldnn::error")
                    ELSE IF vendor = 2 THEN Throw(R10, "mkldnn::error")
                    ELSE Return(set_primitive(R10, rnn_index, "rnn_forward", "",
                                    [k \in 1..8 |-> Dep(R10, rnn_index, k - 1)]),
                                rnn_index))

\* size_t build_concat(inputs_data_desc, result_desc, concat_dim), with n the
\* size of inputs_data_desc
build_concat ==
    \E n \in 1..MaxConcatInputs, vendor \in Vendor(1) :
        /\ Room(n + 2)
        /\ CallWith("build_concat", "construct", "concat", 0 - 1, [n |-> n],
                    Construct(Registry,
                              [i \in 1..(n + 1) |->
                                  IF i <= n THEN "inputs_data_desc[i]"
                                  ELSE "result_desc"],
                              "concat", "", [i \in 1..(n + 1) |-> i],
                              [i \in 1..(n + 1) |-> i], vendor, FALSE))

\* void build_concat(concat_pd, inputs_data_desc, concat_index), with n the
\* size of inputs_data_desc
build_concat_at ==
    \E concat_index \in Indices, n \in 1..MaxConcatInputs,
       vendor \in Vendor(1) :
        /\ alive /\ ncalls < MaxCalls
        /\ Rebuildable(concat_index, "concat", "", n + 1)
        /\ Call("build_concat", "rebuild", "concat", 0 - 1,
                Rebuild(Registry, concat_index,
                        [i \in 1..(n + 1) |->
                            IF i <= n THEN <<"inputs_data_desc[i]", i - 1>>
                            ELSE <<"concat_pd.dst_primitive_desc().desc()", n>>],
                        "concat", "", [i \in 1..(n + 1) |-> i - 1], vendor))

\* size_t build_slice(input_desc, result_desc, lower_bounds, result_shape):
\* the library is asked for view_pd and for reorder_pd
build_slice ==
    \E vendor \in Vendor(2) :
        /\ Room(3)
        /\ LET R == Registry
               input_index == Size(R)
               R1 == build_memory_primitive(R, "input_desc")
               result_index == Size(R1)
               R2 == build_memory_primitive(R1, "result_desc")
               reorder_index == Size(R2)
               R3 == add_primitive(R2, "reorder", "view",
                                   <<input_index, result_index>>)
           IN  Call("build_slice", "construct", "reorder", 0 - 1,
                    IF vendor = 1 THEN Throw(R1, "mkldnn::error")
                    ELSE IF vendor = 2 THEN Throw(R2, "mkldnn::error")
                    ELSE Return(set_primitive_deps(R3, reorder_index,
                                    <<input_index, result_index>>),
                                reorder_index))

\* void build_slice(input_desc, result_desc, lower_bounds, result_shape,
\* slice_index)
build_slice_at ==
    \E slice_index \in Indices, vendor \in Vendor(2) :
        /\ alive /\ ncalls < MaxCalls
        /\ Rebuildable(slice_index, "reorder", "view", 2)
        /\ LET R == Registry
               R1 == rebuild_memory_primitives(R, slice_index,
                         <<<<"input_desc", 0>>>>)
               R2 == rebuild_memory_primitives(R1, slice_index,
                         <<<<"result_desc", 1>>>>)
           IN  Call("build_slice", "rebuild", "reorder", 0 - 1,
                    IF vendor = 1 THEN Throw(R1, "mkldnn::error")
                    ELSE IF vendor = 2 THEN Throw(R2, "mkldnn::error")
                    ELSE Return(set_primitive(R2, slice_index, "reorder", "view",
                                    <<Dep(R2, slice_index, 0),
                                      Dep(R2, slice_index, 1)>>),
                                slice_index))

\* size_t build_softmax_forward(input_desc, result_desc, softmax_axis)
build_softmax_forward ==
    \E vendor \in Vendor(1) :
        /\ Room(3)
        /\ Call("build_softmax_forward", "construct", "softmax_forward", 0 - 1,
                Construct(Registry,
                          <<"input_desc", "result_desc">>,
                          "softmax_forward", "", <<1, 2>>, <<1, 2>>, vendor, FALSE))

\* void build_softmax_forward(softmax_desc, softmax_index)
build_softmax_forward_at ==
    \E index \in Indices, vendor \in Vendor(1) :
        /\ alive /\ ncalls < MaxCalls
        /\ Rebuildable(index, "softmax_forward", "", 2)
        /\ Call("build_softmax_forward", "rebuild", "softmax_forward", 0 - 1,
                Rebuild(Registry, index,
                        <<<<"softmax_desc.data.data_desc", 0>>,
                          <<"softmax_desc.data.data_desc", 1>>>>,
                        "softmax_forward", "", <<0, 1>>, vendor))

\* size_t build_leaky_relu(input_desc, result_desc, alpha)
build_leaky_relu ==
    \E vendor \in Vendor(1) :
        /\ Room(3)
        /\ Call("build_leaky_relu", "construct", "eltwise_forward", 0 - 1,
                Construct(Registry,
                          <<"input_desc", "result_desc">>,
                          "eltwise_forward", "eltwise_relu(alpha)", <<1, 2>>, <<1, 2>>, vendor, FALSE))

\* void build_leaky_relu(leaky_relu_desc, leaky_relu_index)
build_leaky_relu_at ==
    \E index \in Indices, vendor \in Vendor(1) :
        /\ alive /\ ncalls < MaxCalls
        /\ Rebuildable(index, "eltwise_forward", "eltwise_relu(alpha)", 2)
        /\ Call("build_leaky_relu", "rebuild", "eltwise_forward", 0 - 1,
                Rebuild(Registry, index,
                        <<<<"leaky_relu_desc.data.data_desc", 0>>,
                          <<"leaky_relu_desc.data.data_desc", 1>>>>,
                        "eltwise_forward", "eltwise_relu(alpha)", <<0, 1>>, vendor))

\* size_t build_bounded_relu(input_desc, result_desc, alpha)
build_bounded_relu ==
    \E vendor \in Vendor(1) :
        /\ Room(3)
        /\ Call("build_bounded_relu", "construct", "eltwise_forward", 0 - 1,
                Construct(Registry,
                          <<"input_desc", "result_desc">>,
                          "eltwise_forward", "eltwise_bounded_relu", <<1, 2>>, <<1, 2>>, vendor, FALSE))

\* void build_bounded_relu(bounded_relu_desc, bounded_relu_index)
build_bounded_relu_at ==
    \E index \in Indices, vendor \in Vendor(1) :
        /\ alive /\ ncalls < MaxCalls
        /\ Rebuildable(index, "eltwise_forward", "eltwise_bounded_relu", 2)
        /\ Call("build_bounded_relu", "rebuild", "eltwise_forward", 0 - 1,
                Rebuild(Registry, index,
                        <<<<"bounded_relu_desc.data.data_desc", 0>>,
                          <<"bounded_relu_desc.data.data_desc", 1>>>>,
                        "eltwise_forward", "eltwise_bounded_relu", <<0, 1>>, vendor))

\* m_mkldnn_primitives.resize(count, nullptr): the list cut or filled to
\* count slots, the size it had left out
resize_to_count(R, count) ==
    [R EXCEPT !.prims = [i \in 1..count |-> IF i <= Len(@) THEN @[i] ELSE 0]]

\* m_mkldnn_primitives.resize(size + count, nullptr)
resize(R, count) ==
    [R EXCEPT !.prims = @ \o [i \in 1..count |-> 0]]

\* size_t convolution_forward_init(bool with_bias)
convolution_forward_init ==
    \E with_bias \in BOOLEAN :
        /\ Room(IF with_bias THEN 5 ELSE 4)
        /\ LET R == Registry
               size == Size(R)
               R1 == IF with_bias THEN resize(R, 5) ELSE resize(R, 4)
               R2 == IF with_bias
                     THEN set_primitive_deps(R1, Size(R1) - 1,
                              <<size, size + 1, size + 2, size + 3>>)
                     ELSE set_primitive_deps(R1, Size(R1) - 1,
                              <<size, size + 1, size + 2>>)
           IN  CallWith("convolution_forward_init", "reserve",
                        "convolution_forward", 0 - 1,
                        [with_bias |-> with_bias], Return(R2, Size(R1) - 1))

\* m_primitive_deps[index] = {v} for m_primitive_deps[index].push_back(v)
push_back_dep_assign(R, index, v) == set_primitive_deps(R, index, <<v>>)

\* m_primitive_deps[index].push_back(v): operator[] makes the entry, empty,
\* when the index has none
push_back_dep(R, index, v) ==
    IF index \in DOMAIN R.deps
    THEN [R EXCEPT !.deps[index] = Append(@, v)]
    ELSE set_primitive_deps(R, index, <<v>>)

\* the loop of reserve_primitive_space pushing i where it pushes size + i
RECURSIVE reserve_loop_from_zero(_, _, _, _)
reserve_loop_from_zero(R, size, count, i) ==
    IF ~(i < count - 1) THEN R
    ELSE reserve_loop_from_zero(push_back_dep(R, Size(R) - 1, i),
                                size, count, i + 1)

\* for (auto i = 0; i < count - 1; i++)
\*     m_primitive_deps[m_mkldnn_primitives.size() - 1].push_back(size + i);
RECURSIVE reserve_loop(_, _, _, _)
reserve_loop(R, size, count, i) ==
    IF ~(i < count - 1) THEN R
    ELSE reserve_loop(push_back_dep(R, Size(R) - 1, size + i),
                      size, count, i + 1)

\* size_t reserve_primitive_space(size_t count, bool new_workspace)
reserve_primitive_space ==
    \E count \in 1..MaxReserve, new_workspace \in BOOLEAN :
        /\ Room(count)
        /\ LET R == Registry
               size == Size(R)
               R1 == resize(R, count)
               R2 == reserve_loop(R1, size, count, 0)
               R3 == IF new_workspace
                     THEN push_back_dep(R2, Size(R2) - 1, 0)
                     ELSE R2
           IN  CallWith("reserve_primitive_space", "reserve", "", 0 - 1,
                        [count |-> count, new_workspace |-> new_workspace],
                        Return(R3, Size(R3) - 1))

\* ~MKLDNNEmitter() with the flush moved above the loop of deletes
destroy_flush_first ==
    \E win32 \in BOOLEAN :
        /\ alive
        /\ alive' = FALSE
        /\ heap' = [id \in DOMAIN heap |->
                       [heap[id] EXCEPT !.deleted = @ + Cardinality(
                           {i \in DOMAIN m_mkldnn_primitives :
                                m_mkldnn_primitives[i] = id})]]
        /\ teardown' =
               (IF win32 THEN <<>>
                ELSE <<[event |-> "mkl_serv_free_buffers", p |-> 0]>>)
               \o [i \in DOMAIN m_mkldnn_primitives |->
                    [event |-> "delete", p |-> m_mkldnn_primitives[i]]]
               \o [i \in DOMAIN m_workspaces |->
                    [event |-> "~MKLDNNWorkspace", p |-> m_workspaces[i].buf]]
        /\ call' = [op |-> "~MKLDNNEmitter", kind |-> "destroy", type |-> "",
                    status |-> "ok", index |-> 0 - 1, pair |-> 0 - 1,
                    arg |-> [win32 |-> win32]]
        /\ UNCHANGED <<registry_vars, ncalls, desc_call>>
        /\ UNCHANGED <<magic_vars, gpu_vars>>

\* ~MKLDNNEmitter(): delete p for every p of m_mkldnn_primitives, in order
\* (delete of nullptr does nothing), then mkl_serv_free_buffers() unless the
\* build is for _WIN32; after the body the members go, and with m_workspaces
\* every workspace
destroy ==
    \E win32 \in BOOLEAN :
        /\ alive
        /\ alive' = FALSE
        /\ heap' = [id \in DOMAIN heap |->
                       [heap[id] EXCEPT !.deleted = @ + Cardinality(
                           {i \in DOMAIN m_mkldnn_primitives :
                                m_mkldnn_primitives[i] = id})]]
        /\ teardown' =
               [i \in DOMAIN m_mkldnn_primitives |->
                    [event |-> "delete", p |-> m_mkldnn_primitives[i]]]
               \o (IF win32 THEN <<>>
                   ELSE <<[event |-> "mkl_serv_free_buffers", p |-> 0]>>)
               \o [i \in DOMAIN m_workspaces |->
                    [event |-> "~MKLDNNWorkspace", p |-> m_workspaces[i].buf]]
        /\ call' = [op |-> "~MKLDNNEmitter", kind |-> "destroy", type |-> "",
                    status |-> "ok", index |-> 0 - 1, pair |-> 0 - 1,
                    arg |-> [win32 |-> win32]]
        /\ UNCHANGED <<registry_vars, ncalls, desc_call>>
        /\ UNCHANGED <<magic_vars, gpu_vars>>

EmitterNext ==
    \/ build_quantize_reorder
    \/ build_quantize_reorder_at
    \/ build_dequantization
    \/ build_quantized_max_pool
    \/ build_quantized_avg_pool
    \/ build_convolution_forward
    \/ build_quantized_convolution_forward
    \/ build_quantized_convolution_forward_bias
    \/ build_convolution_forward_bias
    \/ build_convolution_backward_weights_bias
    \/ build_convolution_backward_weights_bias_at
    \/ build_convolution_backward_weights
    \/ build_convolution_backward_weights_at
    \/ build_convolution_backward_data
    \/ build_convolution_backward_data_at
    \/ build_pooling_forward
    \/ build_pooling_forward_at
    \/ build_pooling_backward
    \/ build_pooling_backward_at
    \/ build_max_pooling_backward
    \/ build_max_pooling_backward_at
    \/ build_max_pooling_with_indices_forward
    \/ build_max_pooling_with_indices_forward_at
    \/ build_max_pooling_with_indices_backward
    \/ build_max_pooling_with_indices_backward_at
    \/ build_reorder
    \/ build_reorder_at
    \/ build_lrn_forward
    \/ build_lrn_forward_at
    \/ build_relu_forward
    \/ build_relu_forward_at
    \/ build_relu_backward
    \/ build_relu_backward_at
    \/ build_sigmoid_forward
    \/ build_sigmoid_forward_at
    \/ build_sigmoid_backward
    \/ build_sigmoid_backward_at
    \/ build_elementwise_add
    \/ build_elementwise_add_at
    \/ build_batchnorm_forward
    \/ build_batchnorm_forward_at
    \/ build_batchnorm_backward
    \/ build_batchnorm_backward_at
    \/ build_rnn_forward
    \/ build_rnn_forward_at
    \/ build_concat
    \/ build_concat_at
    \/ build_slice
    \/ build_slice_at
    \/ build_softmax_forward
    \/ build_softmax_forward_at
    \/ build_leaky_relu
    \/ build_leaky_relu_at
    \/ build_bounded_relu
    \/ build_bounded_relu_at
    \/ convolution_forward_init
    \/ reserve_primitive_space
    \/ destroy

-----------------------------------------------------------------------------
\* The three parts are separate programs: each specification runs one of
\* them and leaves the other two as they start.

\* the state before any call, with the divisor one of a set: no pair asked
\* for, an empty device, an emitter just constructed
Start(divisors) ==
    /\ divisor \in divisors
    /\ magic_ret = [status |-> "none"]
    /\ dividend = U64(0)
    /\ dev_mem = [k \in 1..MaxDevBuffers |-> NoBuffer]
    /\ host_mem = [k \in 1..HostBuffers |-> [i \in 1..MaxBufferSize |-> 1]]
    /\ gpu_op = GpuCall("none", NullPtr)
    /\ cuda_log = <<>>
    /\ m_mkldnn_primitives = <<>>
    /\ m_primitive_deps = <<>>
    /\ m_workspaces = <<>>
    /\ m_workspace_bufs = <<>>
    /\ heap = <<>>
    /\ alive = TRUE
    /\ teardown = <<>>
    /\ call = [op |-> "none", kind |-> "none", type |-> "", status |-> "ok",
               index |-> 0 - 1, pair |-> 0 - 1, arg |-> <<>>]
    /\ ncalls = 0
    /\ desc_call = NoDescCall

Init == Start({U64(1)})

Next == EmitterNext

\* the emitter under any calls of its owner
Spec == Init /\ [][Next]_vars

MagicNext == Call_get_magic_u64 \/ ChooseDividend

MagicInit == Start(Divisors)

\* get_magic_u64 on a divisor, and its pair used on dividends
SpecMagic == MagicInit /\ [][MagicNext]_vars

\* the device-memory helpers under any calls
SpecGpu == Init /\ [][GpuNext]_vars

\* the emitter with its descriptor builder: calls of build_memory_descriptor
\* between calls that fill the registry
DescriptorNext ==
    \/ Call_build_memory_descriptor
    \/ Call_build_memory_descriptor_tvw
    \/ build_pooling_forward
    \/ build_pooling_forward_at
    \/ convolution_forward_init

SpecDescriptor == Init /\ [][DescriptorNext]_vars

\* allocation and release only: the buffers free_gpu_buffer is handed
FreeNext == create_gpu_buffer \/ free_gpu_buffer
SpecFree == Init /\ [][FreeNext]_vars

\* the emitter read between the calls that fill it: reserved indices with
\* and without an entry, and primitives with a workspace
AccessNext ==
    \/ reserve_primitive_space
    \/ build_max_pooling_backward
    \/ get_mkldnn_primitives
    \/ get_mkldnn_workspaces
    \/ get_primitive_deps

SpecAccess == Init /\ [][AccessNext]_vars

\* the softmax descriptor asked for between the calls that build a softmax
SoftmaxNext ==
    \/ Call_get_softmax_forward_desc
    \/ build_softmax_forward
    \/ build_softmax_forward_at

SpecSoftmax == Init /\ [][SoftmaxNext]_vars

\* the convolution construct calls, each choosing its algorithm
ConvNext ==
    \/ build_convolution_forward
    \/ build_quantized_convolution_forward
    \/ build_quantized_convolution_forward_bias
    \/ build_convolution_forward_bias
    \/ build_convolution_backward_weights_bias
    \/ build_convolution_backward_weights
    \/ build_convolution_backward_data

SpecConv == Init /\ [][ConvNext]_vars

-----------------------------------------------------------------------------
\* Properties of the magic-number routine, checked under SpecMagic.

\* C1: for every divisor d of [1, 2^32), get_magic_u64(d) returns a pair
\* (m, s), and for every n of the supported range (0..0x7fffffff, and
\* 0..0xffffffff when d = 3) floor(n / d) = (n * m) >> (32 + s).
C1_MagicDivides ==
    magic_ret.status # "none" =>
        /\ magic_ret.status = "ok"
        /\ MulShift(dividend, magic_ret.magic, magic_ret.shift)
               = Div64(dividend, divisor)

-----------------------------------------------------------------------------
\* Properties of the device-memory helpers, checked under SpecGpu.

\* C9: create_gpu_buffer reports an allocation error to its caller whenever
\* cudaMalloc fails, and what it returns without an error is never null or
\* unset: it is the buffer just allocated.
C9_AllocationFailureReported ==
    gpu_op.fn = "create_gpu_buffer" =>
        IF cuda_log[1].err = "cudaSuccess"
        THEN gpu_op.reported = "nothing" /\ LiveDev(dev_mem, gpu_op.ret)
        ELSE gpu_op.reported # "nothing"

\* C10: cuda_memcpyHtD, cuda_memcpyDtH and cuda_memcpyDtD report a transfer
\* error to the caller whenever the cudaMemcpy they make fails (an invalid
\* pointer, a size larger than either buffer).
C10_TransferFailureReported ==
    (/\ gpu_op.fn \in {"cuda_memcpyHtD", "cuda_memcpyDtH", "cuda_memcpyDtD"}
     /\ cuda_log[1].err # "cudaSuccess")
        => gpu_op.reported # "nothing"

-----------------------------------------------------------------------------
\* Properties of the emitter, checked under Spec.

\* a step that is a successful rebuild of the index the call before it
\* constructed, by the rebuild overload of the same operation
ConstructThenRebuild ==
    /\ call.kind = "construct" /\ call.status = "ok"
    /\ call'.kind = "rebuild" /\ call'.status = "ok"
    /\ call'.op = call.op
    /\ call'.index = call.index
    /\ call'.pair = call.pair
    /\ ncalls' = ncalls + 1

\* C2: a construct followed at once by the rebuild of the returned index
\* leaves the dependency entry of that index, and of the forward index that
\* goes with a max-pooling backward, as construct left it, and leaves the
\* length of the primitive list as it was.
C2_RebuildKeepsEntry ==
    [][ConstructThenRebuild =>
          /\ m_primitive_deps'[call.index] = m_primitive_deps[call.index]
          /\ IF call.pair = 0 - 1 THEN TRUE
             ELSE m_primitive_deps'[call.pair] = m_primitive_deps[call.pair]
          /\ Len(m_mkldnn_primitives') = Len(m_mkldnn_primitives)]_vars

\* the descriptors of the memory primitives the slots of an entry hold
DescsAt(entry) ==
    [k \in 1..Len(entry) |-> heap[m_mkldnn_primitives[entry[k] + 1]].desc]

\* the slots just below index, n of them, in ascending order
SlotsBelow(index, n) == [k \in 1..n |-> index - n + k - 1]

\* C3: after a successful construct of a convolution with bias the entry of
\* the returned index has exactly 4 slots, holding input, weights, bias and
\* output in that order; without bias exactly 3, input, weights and output;
\* the entry convolution_forward_init(with_bias) records has the same length
\* and order over the slots it reserved.
C3_ConvolutionEntry ==
    /\ (/\ call.kind = "construct" /\ call.status = "ok"
        /\ call.op \in {"build_convolution_forward_bias",
                        "build_quantized_convolution_forward_bias"})
          => LET e == m_primitive_deps[call.index]
             IN  /\ e = SlotsBelow(call.index, 4)
                 /\ DescsAt(e) = <<"input_data_desc", "weights_desc",
                                   "bias_desc", "result_desc">>
    /\ (/\ call.kind = "construct" /\ call.status = "ok"
        /\ call.op \in {"build_convolution_forward",
                        "build_quantized_convolution_forward"})
          => LET e == m_primitive_deps[call.index]
             IN  /\ e = SlotsBelow(call.index, 3)
                 /\ DescsAt(e) = <<"input_data_desc", "weights_desc",
                                   "result_desc">>
    /\ call.op = "convolution_forward_init"
          => /\ call.index = Len(m_mkldnn_primitives) - 1
             /\ m_primitive_deps[call.index] =
                    SlotsBelow(call.index, IF call.arg.with_bias THEN 4 ELSE 3)

C3_Witness ==
    /\ call.op = "build_convolution_forward_bias"
    /\ call.status = "ok"
    /\ call.index > 4

\* C4: once the emitter is destroyed, every primitive object it made with
\* new, one that a rebuild replaced in its slot included, has been deleted
\* exactly once.
C4_ReleasedOnce ==
    ~alive => \A id \in DOMAIN heap : heap[id].deleted = 1

\* C6: a construct operation whose parameters the vendor library rejects
\* ends with ngraph_error: mkldnn::error never reaches the caller.
C6_VendorErrorConverted ==
    call.kind = "construct" => call.status \in {"ok", "ngraph_error"}

\* a step that is a construct call ending in an exception
FailedConstruct ==
    /\ call'.kind = "construct"
    /\ call'.status # "ok"
    /\ ncalls' = ncalls + 1

\* the indices a step appended to the primitive list
Appended ==
    Len(m_mkldnn_primitives)..(Len(m_mkldnn_primitives') - 1)

C8_ReserveRecordsEntry ==
    [][(call'.op = "reserve_primitive_space" /\ ncalls' = ncalls + 1) =>
          LET S == Len(m_mkldnn_primitives)
              count == call'.arg.count
              index == S + count - 1
          IN  /\ m_mkldnn_primitives'
                     = m_mkldnn_primitives \o [i \in 1..count |-> 0]
              /\ heap' = heap
              /\ call'.status = "ok"
              /\ call'.index = index
              /\ IF index \in DOMAIN m_primitive_deps'
                 THEN m_primitive_deps'[index]
                          = SlotsBelow(index, count - 1)
                              \o (IF call'.arg.new_workspace THEN <<0>>
                                  ELSE <<>>)
                 ELSE FALSE
              /\ \A j \in DOMAIN m_primitive_deps :
                     /\ j \in DOMAIN m_primitive_deps'
                     /\ m_primitive_deps'[j] = m_primitive_deps[j]]_vars

-----------------------------------------------------------------------------
\* Properties of the descriptor builder, checked under SpecDescriptor.

\* C5: build_memory_descriptor, either overload, asked for the format
\* `blocked` ends with ngraph_error and returns no descriptor; asked for any
\* other format it returns a descriptor of exactly that format; in both
\* cases the registry is as it was.
C5_BlockedRejected ==
    [][desc_call' # desc_call =>
          /\ IF desc_call'.fmt = "blocked"
             THEN /\ desc_call'.out.status = "ngraph_error"
                  /\ desc_call'.out.desc = NoDesc
             ELSE /\ desc_call'.out.status = "ok"
                  /\ desc_call'.out.desc.format = desc_call'.fmt
          /\ UNCHANGED <<registry_vars, heap, alive, teardown>>]_vars

C5_Witness ==
    /\ desc_call.overload = "Shape"
    /\ desc_call.fmt = "blocked"
    /\ desc_call.out.status = "ngraph_error"
    /\ Len(m_mkldnn_primitives) > 0

\* C11: free_gpu_buffer(nullptr) makes no call to the device runtime and
\* leaves device and host memory as they were; free_gpu_buffer(p) with p
\* non-null makes exactly one call, cudaFree(p).
C11_FreeNullIsNoOp ==
    [][gpu_op'.fn = "free_gpu_buffer" =>
         IF gpu_op'.arg = NullPtr
         THEN /\ cuda_log' = <<>>
              /\ dev_mem' = dev_mem
              /\ host_mem' = host_mem
         ELSE /\ Len(cuda_log') = 1
              /\ cuda_log'[1].api = "cudaFree"
              /\ cuda_log'[1].ptr = gpu_op'.arg]_vars

\* free_gpu_buffer(nullptr) has returned while a device buffer is live
C11_Witness ==
    /\ gpu_op.fn = "free_gpu_buffer"
    /\ gpu_op.arg = NullPtr
    /\ \E p \in DevPtrs : LiveDev(dev_mem, p)

------------------------------------------------------------------------------
\* More properties of the magic-number routine, checked under SpecMagic.

\* C12: for every divisor d of [1, 2^32), get_magic_u64(d) returns a pair:
\* the loop of _magicU32 finds its p within 0..2*nbits and the
\* std::runtime_error "Magic for unsigned integer division could not be
\* found" is never raised.
C12_MagicAlwaysFound == magic_ret.status # "runtime_error"

\* The magicgu reference of Hacker's Delight in exact integer arithmetic,
\* written so that no intermediate value leaves 0..2^64-1:
\*   q = floor((nmax + 1) / d), nc = q * d - 1, x = d - 1 - (2^p - 1) mod d;
\*   q = 0 makes nc = -1 and nc * x <= 0 < 2^p;
\*   q > 0 makes 0 <= nc < 2^32 and (2^p > nc * x) <=> (x = 0 \/
\*   nc <= floor((2^p - 1) / x));
\*   d divides 2^p - 1 - (2^p - 1) mod d, so m = that quotient + 1.
\* 2^p - 1 for p in 0..64 is the 64-bit value with its low p bits set.
magicgu_ones(p) == Sub64(powU64(U64(2), p), U64(1))

magicgu_found(nmax, d, p) ==
    \E q \in {Div64(Add64(nmax, U64(1)), d)} :
    \E x \in {Sub64(Sub64(d, U64(1)), Mod64(magicgu_ones(p), d))} :
        \/ IsZero64(q)
        \/ IsZero64(x)
        \/ ~Less64(Div64(magicgu_ones(p), x), Sub64(Mul64(q, d), U64(1)))

magicgu_m(d, p) ==
    Add64(Div64(Sub64(magicgu_ones(p), Mod64(magicgu_ones(p), d)), d), U64(1))

magicgu(nmax, d) ==
    The({IF hits = {}
         THEN [status |-> "no p"]
         ELSE The({[status |-> "ok", magic |-> magicgu_m(d, p),
                    shift |-> U64(p)] :
                   p \in {CHOOSE h \in hits : \A g \in hits : h <= g}}) :
         hits \in {{p \in 0..(2 * (msbU64(nmax) + 1)) :
                       magicgu_found(nmax, d, p)}}})

\* C13: _magicU32(nmax, d) returns exactly the pair (m, p) of the magicgu
\* reference computed in exact integer arithmetic, for the nmax and d that
\* _magicU64 passes to it.
C13_MagicIsReference ==
    magic_ret.status # "none" =>
        magicU32(magic_nmax(divisor), divisor)
            = magicgu(magic_nmax(divisor), divisor)

------------------------------------------------------------------------------
\* More properties of the primitive registry, checked under Spec.

\* what a step keeps of the indices handed out before it, and what it
\* promises for the index it hands out (when Returned holds of the step)
IndexKept(Returned) ==
    /\ Len(m_mkldnn_primitives') >= Len(m_mkldnn_primitives)
    /\ DOMAIN m_primitive_deps \subseteq DOMAIN m_primitive_deps'
    /\ call'.kind \in {"construct", "reserve"} =>
           SubSeq(m_mkldnn_primitives', 1, Len(m_mkldnn_primitives))
               = m_mkldnn_primitives
    /\ Returned =>
           /\ call'.index \in 0..(Len(m_mkldnn_primitives') - 1)
           /\ call'.index \in DOMAIN m_primitive_deps'

\* C14: every index a construct or reserve call returns is smaller than
\* the list length and has a dependency entry, and stays so: no later step
\* shortens the list, drops an entry, or moves the slots already there.
C14_ReturnedIndexValid ==
    [][IndexKept(/\ ncalls' = ncalls + 1
                 /\ call'.kind \in {"construct", "reserve"}
                 /\ call'.status = "ok")]_vars

\* where index i stands in its life: beyond the list, an empty slot, a slot
\* that holds a primitive (constructed, or rebuilt since), or torn down
SlotState(prims, alv, i) ==
    IF i >= Len(prims) THEN "Unreserved"
    ELSE IF ~alv THEN "Destroyed"
    ELSE IF prims[i + 1] = 0 THEN "Reserved"
    ELSE "Constructed"

SlotStep(i) ==
    <<SlotState(m_mkldnn_primitives, alive, i),
      SlotState(m_mkldnn_primitives', alive', i)>>

\* a primitive already in slot i is replaced by the step
Replaced(i) ==
    /\ i < Len(m_mkldnn_primitives)
    /\ m_mkldnn_primitives[i + 1] # 0
    /\ m_mkldnn_primitives'[i + 1] # m_mkldnn_primitives[i + 1]

\* C15 as stated: each index moves only Unreserved -> Reserved ->
\* Constructed -> Rebuilt (any number of times) -> Destroyed; none is
\* destroyed without having been constructed, none is constructed without
\* having been reserved, none returns to an earlier state.
C15_LifecycleAsStated ==
    [][\A i \in 0..(MaxPrimitives - 1) :
          /\ SlotStep(i) \in
                 {<<"Unreserved", "Unreserved">>, <<"Unreserved", "Reserved">>,
                  <<"Reserved", "Reserved">>, <<"Reserved", "Constructed">>,
                  <<"Constructed", "Constructed">>,
                  <<"Constructed", "Destroyed">>,
                  <<"Destroyed", "Destroyed">>}
          /\ Replaced(i) => call'.kind = "rebuild"]_vars

\* C15, amended: each index moves only forward through Unreserved,
\* Reserved, Constructed (rebuilt any number of times) and Destroyed, but
\* a construct overload takes its indices from Unreserved straight to
\* Constructed, and teardown destroys every index of the list, the
\* reserved ones that were never constructed too.  Only a rebuild overload
\* replaces a primitive, and nothing moves after teardown.
C15_LifecycleForward ==
    [][\A i \in 0..(MaxPrimitives - 1) :
          /\ SlotStep(i) \in
                 {<<"Unreserved", "Unreserved">>, <<"Unreserved", "Reserved">>,
                  <<"Unreserved", "Constructed">>,
                  <<"Reserved", "Reserved">>, <<"Reserved", "Constructed">>,
                  <<"Reserved", "Destroyed">>,
                  <<"Constructed", "Constructed">>,
                  <<"Constructed", "Destroyed">>,
                  <<"Destroyed", "Destroyed">>}
          /\ Replaced(i) => call'.kind = "rebuild"]_vars

\* a torn-down emitter with an index that was constructed and one that was
\* reserved and never constructed
C15_Witness ==
    /\ ~alive
    /\ call.op = "~MKLDNNEmitter"
    /\ \E i \in Indices : m_mkldnn_primitives[i + 1] = 0
    /\ \E i \in Indices : m_mkldnn_primitives[i + 1] # 0

\* a is the front of b
IsPrefix(a, b) == Len(a) <= Len(b) /\ SubSeq(b, 1, Len(a)) = a

\* C16: no workspace is freed or removed before the emitter is destroyed:
\* the workspace list only grows, m_workspace_bufs and m_workspaces have
\* the same length with entry i of the former the buffer of entry i of the
\* latter, and the index insert_workspace returned for a workspace keeps
\* addressing it.
C16_WorkspacesKept ==
    [][/\ IsPrefix(m_workspaces, m_workspaces')
       /\ IsPrefix(m_workspace_bufs, m_workspace_bufs')
       /\ Len(m_workspace_bufs') = Len(m_workspaces')
       /\ \A i \in DOMAIN m_workspaces' :
              m_workspace_bufs'[i] = m_workspaces'[i].buf
       /\ alive' => \A k \in DOMAIN teardown' :
                        teardown'[k].event # "~MKLDNNWorkspace"]_vars

\* two workspaces inserted by two calls, the emitter still alive
C16_Witness == alive /\ Len(m_workspaces) = 2 /\ ncalls = 2

\* what the destructor did, in order: delete of every slot of the list,
\* first to last, then flushes mkl_serv_free_buffers calls and nothing
\* else of the body
TornDown(flushes) ==
    LET n == Len(m_mkldnn_primitives)
        body == SelectSeq(teardown, LAMBDA e : e.event # "~MKLDNNWorkspace")
    IN  /\ Len(body) = n + flushes
        /\ \A i \in 1..n :
               body[i] = [event |-> "delete", p |-> m_mkldnn_primitives[i]]
        /\ \A i \in (n + 1)..(n + flushes) :
               body[i].event = "mkl_serv_free_buffers"

\* C17 as stated: on destruction every primitive of the list is deleted
\* before mkl_serv_free_buffers runs, and the flush runs exactly once, after
\* the last delete.
C17_FlushOnceAfterDeletes == ~alive => TornDown(1)

\* C17, amended: on destruction every primitive of the list is deleted, in
\* list order; a build for _WIN32 makes no flush, and every other build
\* runs mkl_serv_free_buffers exactly once, after the last delete.
C17_FlushAfterDeletes ==
    ~alive => TornDown(IF call.arg.win32 THEN 0 ELSE 1)

\* an emitter holding primitives, torn down by a build that flushes
C17_Witness ==
    /\ ~alive
    /\ ~call.arg.win32
    /\ \E i \in Indices : m_mkldnn_primitives[i + 1] # 0
    /\ Len(m_mkldnn_primitives) >= 2

\* the slots that hold the operands the primitive of index was built over,
\* operand by operand
OperandSlots(prims, objects, index) ==
    LET args == objects[prims[index + 1]].args
    IN  [k \in 1..Len(args) |->
            {j \in 0..(Len(prims) - 1) : prims[j + 1] = args[k]}]

\* C18: for every operation the rebuild overload takes each operand's slot
\* from the position of the dependency entry at which the construct
\* overload recorded it: the primitive a rebuild makes right after the
\* construct is built, operand by operand, over the slots the constructed
\* one was built over (the workspace memory of a max-pooling backward too).
C18_RebuildReadsPositions ==
    [][ConstructThenRebuild =>
          /\ OperandSlots(m_mkldnn_primitives', heap', call.index)
                 = OperandSlots(m_mkldnn_primitives, heap, call.index)
          /\ IF call.pair = 0 - 1 THEN TRUE
             ELSE OperandSlots(m_mkldnn_primitives', heap', call.pair)
                      = OperandSlots(m_mkldnn_primitives, heap, call.pair)]_vars

------------------------------------------------------------------------------
\* Properties of the read accessors, checked under SpecAccess.

\* C19: get_primitive_deps, get_mkldnn_primitives and get_mkldnn_workspaces
\* leave the primitive list, the dependency table and the workspace lists
\* unchanged and return what these hold; get_primitive_deps(index) for an
\* index that has no entry raises an error and makes no entry.
C19_AccessorsReadOnly ==
    [][call'.kind = "read" =>
          /\ m_mkldnn_primitives' = m_mkldnn_primitives
          /\ m_primitive_deps' = m_primitive_deps
          /\ m_workspaces' = m_workspaces
          /\ m_workspace_bufs' = m_workspace_bufs
          /\ call'.op = "get_mkldnn_primitives" =>
                 call'.ret = m_mkldnn_primitives
          /\ call'.op = "get_mkldnn_workspaces" =>
                 call'.ret = m_workspace_bufs
          /\ call'.op = "get_primitive_deps" =>
                 IF call'.index \in DOMAIN m_primitive_deps
                 THEN /\ call'.status = "ok"
                      /\ call'.ret = m_primitive_deps[call'.index]
                 ELSE call'.status = "std::out_of_range"]_vars

\* get_primitive_deps was called for an index of the list that has no entry
C19_Witness ==
    /\ call.op = "get_primitive_deps"
    /\ call.status = "std::out_of_range"
    /\ call.index \in Indices
    /\ call.index \notin DOMAIN m_primitive_deps

------------------------------------------------------------------------------
\* The size of the dependency entries, checked under Spec.

EntrySize(deps, index) ==
    IF index \in DOMAIN deps THEN Len(deps[index]) ELSE 0

------------------------------------------------------------------------------
\* The workspace of a max-pooling backward and of an rnn, checked under Spec.

\* C21: after the rebuild overload of build_max_pooling_backward the forward
\* and the backward entry name the same workspace memory slot (position 2 of
\* the forward entry, position 1 of the backward entry) and the same
\* workspace buffer, the one this call appended (position 3 of both), and
\* the workspace memory slot is none of the fprop_src, diff_dst and diff_src
\* slots.
C21_RebuildSharesWorkspace ==
    [][(/\ call'.op = "build_max_pooling_backward"
        /\ call'.kind = "rebuild"
        /\ call'.status = "ok"
        /\ ncalls' = ncalls + 1) =>
          LET fwd == m_primitive_deps'[call'.pair]
              bwd == m_primitive_deps'[call'.index]
          IN  /\ fwd[3] = bwd[2]
              /\ fwd[4] = bwd[4]
              /\ fwd[4] = Len(m_workspaces') - 1
              /\ Len(m_workspaces') = Len(m_workspaces) + 1
              /\ fwd[3] \notin {fwd[1], bwd[1], fwd[2], bwd[3]}]_vars

\* the primitives whose dependency entry names workspace buffer w: those of
\* a max-pooling backward pair and of an rnn, the entry's last position
WorkspaceUsers(prims, deps, objects, w) ==
    {i \in DOMAIN deps :
        /\ i < Len(prims)
        /\ prims[i + 1] # 0
        /\ \/ objects[prims[i + 1]].type = "rnn_forward"
           \/ /\ objects[prims[i + 1]].type
                     \in {"pooling_forward", "pooling_backward"}
              /\ objects[prims[i + 1]].desc = "workspace"
        /\ deps[i][Len(deps[i])] = w}

\* every workspace of the list is named by one rnn primitive or by the
\* forward and the backward primitive of one max-pooling backward
WorkspacesOwned(prims, deps, objects, wss) ==
    \A w \in 0..(Len(wss) - 1) :
        LET users == WorkspaceUsers(prims, deps, objects, w)
        IN  \/ \E i \in users :
                   /\ users = {i}
                   /\ objects[prims[i + 1]].type = "rnn_forward"
            \/ \E f \in users, b \in users :
                   /\ users = {f, b}
                   /\ objects[prims[f + 1]].type = "pooling_forward"
                   /\ objects[prims[b + 1]].type = "pooling_backward"

\* C22: a successful construct or rebuild call keeps every workspace of
\* the list named, as workspace buffer of a dependency entry, by exactly
\* the rnn primitive or the max-pooling forward and backward pair it was
\* allocated for: none is left without a primitive while the emitter lives.
C22_WorkspaceOwned ==
    [][(/\ WorkspacesOwned(m_mkldnn_primitives, m_primitive_deps, heap,
                           m_workspaces)
        /\ call'.kind \in {"construct", "rebuild"}
        /\ call'.status = "ok"
        /\ ncalls' = ncalls + 1) =>
          WorkspacesOwned(m_mkldnn_primitives', m_primitive_deps', heap',
                          m_workspaces')]_vars

------------------------------------------------------------------------------
\* The nmax of _magicU64 and the size of what it returns, checked under
\* SpecMagic.

\* what _magicU64 makes of the pair _magicU32 returns for nmax and d
PairFor(nmax, d) ==
    The({IF r.status # "ok" THEN r
         ELSE [r EXCEPT !.shift = IF r.magic # U64(1)
                                  THEN Sub64(@, U64(32)) ELSE @] :
         r \in {magicU32(nmax, d)}})

\* C23: get_magic_u64 computes the pair of 3 with nmax = 0xffffffff and
\* that of every other divisor with nmax = 0x7fffffff; the pair of 3 is
\* (0xAAAAAAAB, 1), and floor(n / 3) = (n * m) >> 33 for every n of
\* 0..0xffffffff.  3 * m = 2^33 + 1 makes n * m / 2^33 exceed n / 3 by
\* n / (3 * 2^33), less than 1/3 for every n below 2^33, so the floors agree
\* on the whole range; the dividends tried are checked one by one as well.
C23_NmaxOfThree ==
    magic_ret.status # "none" =>
        /\ magic_nmax(divisor) = IF divisor = U64(3)
                                 THEN Hex64(0, 0, 65535, 65535)
                                 ELSE Hex64(0, 0, 32767, 65535)
        /\ magic_ret = PairFor(IF divisor = U64(3)
                               THEN Hex64(0, 0, 65535, 65535)
                               ELSE Hex64(0, 0, 32767, 65535), divisor)
        /\ divisor = U64(3) =>
               /\ magic_ret = [status |-> "ok",
                               magic |-> Hex64(0, 0, 43690, 43691),
                               shift |-> U64(1)]
               /\ Mul64(magic_ret.magic, U64(3))
                      = Add64(Pow2_64(33), U64(1))
               /\ ~Less64(Hex64(0, 0, 65535, 65535), dividend)
               /\ MulShift(dividend, magic_ret.magic, magic_ret.shift)
                      = Div64(dividend, U64(3))

\* the pair of 3 is used on the largest dividend, 0xffffffff
C23_Witness ==
    /\ divisor = U64(3)
    /\ magic_ret.status = "ok"
    /\ dividend = Hex64(0, 0, 65535, 65535)

------------------------------------------------------------------------------
\* The softmax descriptor, checked under SpecSoftmax.

\* C24: get_softmax_forward_desc raises ngraph_error whenever the node's
\* set of axes does not hold exactly one axis (none, or two and more), and
\* for exactly one axis builds the descriptor with that axis.
C24_SoftmaxSingleAxis ==
    desc_call.overload = "get_softmax_forward_desc" =>
        IF \E a \in desc_call.node.axes : desc_call.node.axes = {a}
        THEN /\ desc_call.out.status = "ok"
             /\ desc_call.node.axes = {desc_call.out.desc.softmax_axis}
             /\ desc_call.out.desc.data_desc = desc_call.node.input_md
        ELSE desc_call.out.status = "ngraph_error"

\* the descriptor was asked for a node with two axes
C24_Witness ==
    /\ desc_call.overload = "get_softmax_forward_desc"
    /\ Cardinality(desc_call.node.axes) = 2
    /\ desc_call.out.status = "ngraph_error"

\* the convolution construct overloads, and those that build a backward
\* primitive from a backward descriptor and a forward hint
ConvConstructs ==
    {"build_convolution_forward", "build_quantized_convolution_forward",
     "build_quantized_convolution_forward_bias", "build_convolution_forward_bias",
     "build_convolution_backward_weights_bias", "build_convolution_backward_weights",
     "build_convolution_backward_data"}

ConvBackward ==
    {"build_convolution_backward_weights_bias", "build_convolution_backward_weights",
     "build_convolution_backward_data"}

------------------------------------------------------------------------------
\* The shift and the size of the magic, checked under SpecMagic.

\* the divisors of [1, 2^31]
UpTo2_31(d) == ~IsZero64(d) /\ ~Less64(Pow2_64(31), d)

\* C26: for every divisor d of [1, 2^31] whose _magicU32 pair has a magic
\* other than 1, the exponent p of that pair is at least 32, so shift -= 32
\* does not wrap below zero and the shift get_magic_u64 returns is in 0..31.
C26_ShiftNeverWraps ==
    (/\ magic_ret.status = "ok"
     /\ UpTo2_31(divisor)
     /\ magic_ret.magic # U64(1)) =>
        /\ ~Less64(magicU32(magic_nmax(divisor), divisor).shift, U64(32))
        /\ Less64(magic_ret.shift, U64(32))

------------------------------------------------------------------------------
\* The slots a dependency entry names, checked under Spec.

\* the calls whose entry ends with a workspace-buffer index: the construct
\* of a max-pooling backward and of an rnn, and a reserve with new_workspace
EndsWithWorkspace(c) ==
    IF c.op = "reserve_primitive_space" THEN c.arg.new_workspace
    ELSE c.op \in {"build_max_pooling_backward", "build_rnn_forward"}

\* the memory-slot indices of an entry, in the order they are recorded
MemorySlots(entry, workspace) ==
    IF workspace THEN SubSeq(entry, 1, Len(entry) - 1) ELSE entry

\* an entry names slots this call made, below its owner, each one once
FreshSlots(entry, workspace, size, owner) ==
    LET slots == MemorySlots(entry, workspace)
    IN  /\ \A k \in 1..Len(slots) : size <= slots[k] /\ slots[k] < owner
        /\ \A k \in 1..Len(slots), l \in 1..Len(slots) :
               slots[k] = slots[l] => k = l

\* C27: a construct or reserve call that returns gives the primitive it
\* returns (and the forward primitive of a max-pooling backward) an entry
\* whose memory-slot indices are smaller than the primitive's index, pairwise
\* distinct, and all of slots the call itself appended: none of them occurs
\* in an entry that was there before, and every such entry is left as it
\* was.  Only the forward and the backward entry of one
\* build_max_pooling_backward share slots.  Entries made by construct and
\* reserve calls alone therefore keep the three properties in every state.
C27_SlotsOrdered ==
    [][(/\ ncalls' = ncalls + 1
        /\ call'.kind \in {"construct", "reserve"}
        /\ call'.status = "ok") =>
          LET size == Len(m_mkldnn_primitives)
              ws == EndsWithWorkspace(call')
              made == {i \in DOMAIN m_primitive_deps' :
                          \/ i \notin DOMAIN m_primitive_deps
                          \/ m_primitive_deps'[i] # m_primitive_deps[i]}
          IN  /\ made \subseteq {call'.index, call'.pair}
              /\ call'.pair # 0 - 1 =>
                     call'.op = "build_max_pooling_backward"
              /\ \A i \in made :
                     /\ FreshSlots(m_primitive_deps'[i], ws, size, i)
                     /\ \A j \in DOMAIN m_primitive_deps :
                        \A k \in 1..Len(m_primitive_deps[j]) :
                        \A l \in 1..Len(MemorySlots(m_primitive_deps'[i], ws)) :
                            m_primitive_deps[j][k] # m_primitive_deps'[i][l]]_vars

\* a max-pooling backward built after another primitive: its forward and its
\* backward entry share the diff_src slot and the workspace slot, and the
\* entry that was there keeps slots of its own
C27_Witness ==
    /\ call.op = "build_max_pooling_backward"
    /\ call.kind = "construct" /\ call.status = "ok"
    /\ ncalls = 2
    /\ m_primitive_deps[call.pair][2] = m_primitive_deps[call.index][3]
    /\ m_primitive_deps[call.pair][3] = m_primitive_deps[call.index][2]
    /\ \E j \in DOMAIN m_primitive_deps :
           /\ j < call.pair
           /\ \A k \in 1..Len(m_primitive_deps[j]) :
                  m_primitive_deps[j][k] < j

------------------------------------------------------------------------------
\* A convolution the vendor library rejects, checked under SpecConv.

\* C28: when build_convolution_forward, with or without bias, fails because
\* the vendor library rejects the convolution, the primitive list is as long
\* after the call as it was before: the memory slots made for input, weights,
\* (bias,) and result do not remain.
C28_RejectedLeavesLength ==
    [][(/\ call'.op \in {"build_convolution_forward",
                         "build_convolution_forward_bias"}
        /\ call'.kind = "construct"
        /\ call'.status = "ngraph_error"
        /\ ncalls' = ncalls + 1) =>
          Len(m_mkldnn_primitives') = Len(m_mkldnn_primitives)]_vars

------------------------------------------------------------------------------
\* Workspace-buffer indices, checked under Spec.

\* the workspace-buffer index of an entry: its last position
ws_buf_index(entry) == entry[Len(entry)]

\* every entry of a built max-pooling-backward or rnn primitive names a
\* workspace of the list
BuiltWorkspaceInRange(prims, deps, objects, wss) ==
    \A i \in DOMAIN deps :
        (\E w \in {ws_buf_index(deps[i])} :
             i \in WorkspaceUsers(prims, deps, objects, w)) =>
            ws_buf_index(deps[i]) < Len(wss)

\* C29: in every state each workspace-buffer index held in a dependency
\* entry is smaller than the length of the workspace list: the last position
\* of the entries of max-pooling-backward and rnn primitives, and the
\* placeholder reserve_primitive_space pushes when new_workspace is set.
C29_WorkspaceIndexInRange ==
    /\ BuiltWorkspaceInRange(m_mkldnn_primitives, m_primitive_deps, heap,
                             m_workspaces)
    /\ (/\ call.op = "reserve_primitive_space"
        /\ call.status = "ok"
        /\ call.arg.new_workspace) =>
           ws_buf_index(m_primitive_deps[call.index]) < Len(m_workspaces)

------------------------------------------------------------------------------
\* The size of the magic, checked under SpecMagic.

\* n * m computed in uint64_t is the product: nothing was lost to the wrap
NoOverflow64(n, m) ==
    IsZero64(m) \/ Div64(Mul64(n, m), m) = n

\* C30: for every divisor d of [1, 2^31] get_magic_u64 returns a magic
\* smaller than 2^32, and n * magic does not overflow 64 bits for any n of
\* the supported range: not for the largest, nmax, hence for none, and not
\* for the dividend tried.
C30_MagicFits ==
    (magic_ret.status # "none" /\ UpTo2_31(divisor)) =>
        /\ magic_ret.status = "ok"
        /\ Less64(magic_ret.magic, Pow2_64(32))
        /\ NoOverflow64(magic_nmax(divisor), magic_ret.magic)
        /\ ~Less64(magic_nmax(divisor), dividend)
        /\ NoOverflow64(dividend, magic_ret.magic)

\* the magic of 7, which needs all 32 bits, multiplied with 0x7fffffff
C30_Witness ==
    /\ divisor = U64(7)
    /\ magic_ret.status = "ok"
    /\ ~Less64(magic_ret.magic, Pow2_64(31))
    /\ dividend = Hex64(0, 0, 32767, 65535)

=============================================================================
